---- MODULE Spec2Model ----
(***************************************************************************)
(* Model of the asynchronous task execution and multi-backend persistence  *)
(* layer of the cleaning pipeline: the three storage backends and their    *)
(* factory (src/src/storage/backends.py) and the Celery task that drives   *)
(* them (src/src/celery_app.py).                                           *)
(*                                                                         *)
(* One set of variables holds the state of the whole process.  Several     *)
(* specifications share it, each exercising one component:                 *)
(*   SpecPg        the relational backend: initialize, save, save_batch    *)
(*   SpecStore     the relational and the bulk-index backend, single saves *)
(*   SpecJsonl     the append-log backend and the passing of days          *)
(*   SpecRegistry  StorageBackendFactory.get_backends and a save loop      *)
(*   SpecNames     the same, with repeated, upper-case and unknown names   *)
(*   SpecSync      the single-article endpoint and the CLI's local mode    *)
(*   SpecTask      the broker queue, a worker and preprocess_article_task  *)
(*   FairSpecTask  the same, with the worker taking its steps fairly       *)
(*   SpecWorkers   the same queue with a pool of two worker processes      *)
(*   SpecFileJobs  the queue fed by the file endpoint, with targets        *)
(*   SpecCliCelery the queue fed and drained by the CLI's Celery mode      *)
(*   SpecClose     one backend called directly and closed at any time      *)
(*   SpecBatch     save_batch on one backend called directly               *)
(*   SpecFactoryThreads  get_backends run by two threads, by statement     *)
(*   SpecJsonlThreads    the append log's save run by two threads          *)
(*   SpecEsThreads       initialize() of two bulk-index instances          *)
(*   SpecStats           the CLI's statistics updated by the pool's threads *)
(***************************************************************************)
EXTENDS Integers, Sequences, FiniteSets, TLC

(***************************************************************************)
(* Bounds of the model and constants of the program.                       *)
(***************************************************************************)
\* longest list handed to save_batch
MaxBatch == 2
\* tenacity stop_after_attempt(MAX_RETRY_ATTEMPTS)
MAX_RETRY_ATTEMPTS == 3
\* ThreadedConnectionPool(maxconn=20)
PoolMax == 20

DocIds == {"d1", "d2"}
\* the documents that go through the factory and the task queue
JobIds == {"d1"}
Texts == {"A", "B"}
\* most lines of an input file of the CLI
MaxFileLines == 3
\* most leaked pool connections the model follows (the pool itself allows 20)
MaxLeaked == 2
\* longest list of backend names a caller requests
MaxRequested == 2
\* @celery_app.task(max_retries=3)
max_retries == 3
\* worker losses the model follows
MaxCrashes == 1
\* calendar days the model follows
MaxDay == 2
\* the append log takes no call that would, written once, bring it over
\* this many lines
MaxLines == 2

\* close() calls in a row that are told apart
MaxCloses == 2

\* ES_BATCH_SIZE = 500
ES_BATCH_SIZE == 500
\* longest list handed to the bulk-index save_batch
MaxBulk == 1200
\* bulk requests of one attempt among which a failure is placed
MaxChunks == 3

(***************************************************************************)
(* PreprocessSingleResponse, cut to the fields that decide the behaviour:  *)
(* the key, one text field, the temporal_metadata string and whether the   *)
(* free-form cleaned_additional_metadata map is json.dumps-serializable.   *)
(* temporal_metadata is a normalized date, or a string that                *)
(* strptime('%Y-%m-%d') rejects.                                           *)
(***************************************************************************)
GoodRecords ==
  {[document_id |-> d, cleaned_text |-> x,
    temporal_metadata |-> IF x = "A" THEN "2024-01-01" ELSE "bad",
    meta |-> "json"] : d \in DocIds, x \in Texts}

\* a record whose cleaned_additional_metadata (Dict[str, Any]) holds a value
\* json.dumps cannot serialize
BadMetaRecord ==
  [document_id |-> "d1", cleaned_text |-> "A",
   temporal_metadata |-> "2024-01-01", meta |-> "nonjson"]

Records == GoodRecords \cup {BadMetaRecord}

NoRecord ==
  [document_id |-> "none", cleaned_text |-> "none",
   temporal_metadata |-> "none", meta |-> "none"]

\* the records batches are made of: two ids, a second value for the first
\* id's row, and the record that cannot be converted
BatchRecords ==
  {r \in Records : r.document_id = "d2" => r.cleaned_text = "A"}
    \ {[document_id |-> "d1", cleaned_text |-> "A",
         temporal_metadata |-> "2024-01-01", meta |-> "json"]}

Batches == UNION {[1..n -> BatchRecords] : n \in 0..MaxBatch}

VARIABLES
  \* ---- relational backend (class-level pool, database, table)
  pgDbExists,     \* the target database exists on the server
  pgTableExists,  \* the target table exists
  pgTable,        \* committed rows of the table
  pgPool,         \* PostgreSQLStorageBackend._connection_pool is not None
  pgOut,          \* connections checked out of the pool and not put back
  \* ---- bulk-index backend
  esClient,       \* self.es is set on the instance
  esIndexExists,  \* the index exists on the server
  esIndex,        \* documents of the index
  \* ---- append-log backend
  today,          \* the calendar day, date.today()
  jsonlDir,       \* the output directory exists and is writable
  jsonlHandle,    \* day of the file self._file_handle is open on, 0 for None
  jsonlBuf,       \* lines written to the handle and not flushed yet
  jsonlFiles,     \* day -> lines of that day's file
  jsonlSynced,    \* day -> lines of that file that an fsync has covered
  \* ---- the factory
  enabled,        \* settings.storage.enabled_backends, a list of names
  registry,       \* keys of StorageBackendFactory._initialized_backends
  instOf,         \* name -> tag of the instance cached under it (0: none)
  \* ---- threads of one process that call the factory and the backends
  thread,         \* thread -> its position and its local variables
  poolLock,       \* PostgreSQLStorageBackend._pool_lock (0: None)
  lockOwner,      \* lock object -> the thread inside its with block
  poolsMade,      \* connection pools created so far (history)
  stats,          \* the ProcessingStats object of one preprocess_file run
  lineNo,         \* lines of the input file the run's main loop has handled
  \* ---- the broker, the workers and the result backend
  queue,          \* message -> copies waiting in the broker queue
  unacked,        \* worker -> the message it holds unacknowledged
  pc,             \* worker -> where it is in preprocess_article_task
  concurrency,    \* settings.celery.worker_concurrency: worker processes
  persist_to_backends, \* job -> the names in the second argument of its
                       \* message (<<>>: None)
  countdown,      \* job -> the retry that waits in the queue and its delay
                  \* in seconds
  status,         \* job -> state kept by the result backend
  result,         \* job -> result or error kept by the result backend
  execs,          \* job -> executions of the task body started (history)
  crashes,        \* worker losses so far (history)
  \* ---- observation of the last backend call (history)
  last,           \* the last call: operation, outcome, snapshot before it
  pgLast,         \* document_id -> row of the last successful relational write
  esLast,         \* document_id -> document of the last issued index write
  regLast,        \* the last call that went through the factory
  replaced        \* backends on which a write has replaced a different row

storeVars == <<pgDbExists, pgTableExists, pgTable, pgPool, pgOut,
               esClient, esIndexExists, esIndex,
               today, jsonlDir, jsonlHandle, jsonlBuf, jsonlFiles,
               jsonlSynced,
               enabled, registry, instOf>>
thrVars == <<thread, poolLock, lockOwner, poolsMade, stats, lineNo>>
histVars == <<last, pgLast, esLast, regLast, replaced>>
taskVars ==
  <<queue, unacked, pc, concurrency, persist_to_backends, countdown, countdown, status,
    result, execs, crashes>>
vars == <<storeVars, thrVars, taskVars, histVars>>

(***************************************************************************)
(* Relational backend.  The operators below work on a value s holding the  *)
(* relational state:                                                       *)
(*   s.db, s.tbl   the database / the table exists                         *)
(*   s.table       the committed rows                                      *)
(*   s.pool, s.out the class-level pool exists / its checked-out count     *)
(*   s.commits     successful commits made by the call under way           *)
(*   s.held        pool connections the call under way holds               *)
(*   s.peak        the most it has held at once                            *)
(*   s.carried     the most it has held when it started another attempt    *)
(*   s.trail       how its attempts ended: "ok", "retry" (an Operational-  *)
(*                 or InterfaceError), "raise" (any other exception)       *)
(* and return [s |-> the state after, res |-> "ok" | "retry" | "raise"].   *)
(* "retry" is an OperationalError / InterfaceError, which tenacity retries.*)
(*                                                                         *)
(* What the server and the network do to one attempt is an input:          *)
(*   "ok"                nothing fails                                     *)
(*   "conn_error"        connecting fails (pool creation or getconn)       *)
(*   "exec_operational"  the connection drops during execute / commit      *)
(*   "exec_error"        the server rejects a row (constraint, data error) *)
(***************************************************************************)
EnvOutcomes == {"ok", "conn_error", "exec_operational", "exec_error"}

PgState ==
  [db |-> pgDbExists, tbl |-> pgTableExists, table |-> pgTable,
   pool |-> pgPool, out |-> pgOut, commits |-> 0, held |-> 0, peak |-> 0,
   carried |-> 0, trail |-> <<>>]

\* _prepare_sql_data: the temporal_metadata string becomes a DATE, or NULL
\* when strptime rejects it (the ValueError is caught)
PrepareSqlData(rec) ==
  [document_id |-> rec.document_id,
   cleaned_text |-> rec.cleaned_text,
   temporal_metadata |->
     IF rec.temporal_metadata = "bad" THEN "NULL" ELSE rec.temporal_metadata]

\* _prepare_sql_data raises TypeError when json.dumps meets a value of
\* cleaned_additional_metadata it cannot serialize
PrepareRaises(rec) == rec.meta = "nonjson"

\* (mutant) a plain INSERT that keeps the row already stored under the key
InsertOnly(table, row) == table \cup {row}

\* INSERT ... ON CONFLICT (document_id) DO UPDATE SET every non-key column
Upsert(table, row) ==
  {r \in table : r.document_id # row.document_id} \cup {row}

\* the rows of a transaction that executed the first n statements
RECURSIVE ApplyRows(_, _, _)
ApplyRows(table, rows, n) ==
  IF n = 0 THEN table
  ELSE Upsert(ApplyRows(table, rows, n - 1), rows[n])

\* conn.commit(): the transaction's rows become the table
Commit(s, tx) == [s EXCEPT !.table = tx, !.commits = s.commits + 1]

\* (mutant) a failed transaction whose statements stay applied
RollbackKeepsRows(s, tx) == [s EXCEPT !.table = tx]

\* conn.rollback(): the transaction's rows are dropped
Rollback(s, tx) == s

\* _get_or_create_pool: the pool is created on first use, under the lock;
\* creating it connects to the target database
GetOrCreatePool(s, o) ==
  IF s.pool THEN [s |-> s, res |-> "ok"]
  ELSE IF o = "conn_error" \/ ~s.db THEN [s |-> s, res |-> "retry"]
  ELSE [s |-> [s EXCEPT !.pool = TRUE], res |-> "ok"]

\* _get_connection: pool.getconn() raises PoolError when maxconn connections
\* are out, OperationalError when a new connection cannot be made
GetConnection(s, o) ==
  LET p == GetOrCreatePool(s, o) IN
  IF p.res # "ok" THEN p
  ELSE IF p.s.out >= PoolMax THEN [s |-> p.s, res |-> "raise"]
  ELSE IF o = "conn_error" THEN [s |-> p.s, res |-> "retry"]
  ELSE [s |-> [p.s EXCEPT !.out = p.s.out + 1,
                          !.held = p.s.held + 1,
                          !.peak = IF p.s.held + 1 > @ THEN p.s.held + 1 ELSE @],
        res |-> "ok"]

\* (mutant) the finally clause does not give the connection back
KeepConnection(s) == s

\* _return_connection: putconn when there is a connection and a pool
ReturnConnection(s) ==
  IF s.pool THEN [s EXCEPT !.out = s.out - 1, !.held = s.held - 1] ELSE s

\* the decorator's bookkeeping between attempts: how the attempt ended and,
\* before another one, what the call still holds
Attempted(s, res) == [s EXCEPT !.trail = Append(@, res)]

Retrying(s) == [s EXCEPT !.carried = IF s.held > @ THEN s.held ELSE @]

\* the try block of save / save_batch on a held connection: execute the
\* statements in one transaction, commit; on any exception roll back and
\* re-raise.  failAt is the statement the failure of o hits.
ExecuteAndCommit(s, rows, o, failAt) ==
  LET fails == ~s.tbl \/ o \in {"exec_operational", "exec_error"}
      done == IF ~s.tbl THEN 0 ELSE IF fails THEN failAt - 1 ELSE Len(rows)
      tx == ApplyRows(s.table, rows, done)
  IN IF fails
     THEN [s |-> Rollback(s, tx),
           res |-> IF s.tbl /\ o = "exec_operational" THEN "retry" ELSE "raise"]
     ELSE [s |-> Commit(s, tx), res |-> "ok"]

\* one attempt of save(data): the connection is taken and the record is
\* converted before the try block; the finally clause returns the connection
PgSaveAttempt(s, rec, o) ==
  LET g == GetConnection(s, o) IN
  IF g.res # "ok" THEN g
  ELSE IF PrepareRaises(rec) THEN [s |-> g.s, res |-> "raise"]
  ELSE LET e == ExecuteAndCommit(g.s, <<PrepareSqlData(rec)>>, o, 1)
       IN [s |-> ReturnConnection(e.s), res |-> e.res]

\* one attempt of save_batch(data_list), data_list not empty: the records are
\* converted inside the try block
PgSaveBatchAttempt(s, batch, o, failAt) ==
  LET g == GetConnection(s, o) IN
  IF g.res # "ok" THEN g
  ELSE IF \E i \in 1..Len(batch) : PrepareRaises(batch[i])
       THEN [s |-> ReturnConnection(Rollback(g.s, g.s.table)), res |-> "raise"]
  ELSE LET rows == [i \in 1..Len(batch) |-> PrepareSqlData(batch[i])]
           e == ExecuteAndCommit(g.s, rows, o, failAt)
       IN [s |-> ReturnConnection(e.s), res |-> e.res]

\* @retry(stop_after_attempt(3), retry_if_exception_type(Operational,
\* Interface)): attempt k is made with outs[k]; the last failure is raised
RECURSIVE PgSaveCall(_, _, _, _)
PgSaveCall(s, rec, outs, k) ==
  LET a == PgSaveAttempt(s, rec, outs[k]) IN
  IF a.res = "retry" /\ k < MAX_RETRY_ATTEMPTS
  THEN PgSaveCall(Retrying(Attempted(a.s, a.res)), rec, outs, k + 1)
  ELSE [s |-> Attempted(a.s, a.res),
        res |-> IF a.res = "ok" THEN "ok" ELSE "raise"]

RECURSIVE PgSaveBatchCall(_, _, _, _, _)
PgSaveBatchCall(s, batch, outs, failAt, k) ==
  IF Len(batch) = 0 THEN [s |-> s, res |-> "ok"]
  ELSE LET a == PgSaveBatchAttempt(s, batch, outs[k], failAt) IN
       IF a.res = "retry" /\ k < MAX_RETRY_ATTEMPTS
       THEN PgSaveBatchCall(Retrying(Attempted(a.s, a.res)), batch, outs,
                            failAt, k + 1)
       ELSE [s |-> Attempted(a.s, a.res),
             res |-> IF a.res = "ok" THEN "ok" ELSE "raise"]

\* initialize(): best-effort creation of the database on a bootstrap
\* connection (a failure is only a warning), then the pool, then CREATE
\* TABLE IF NOT EXISTS on a pooled connection returned in a finally clause
PgInitializeCall(s, boot, o) ==
  LET s1 == IF boot = "ok" THEN [s EXCEPT !.db = TRUE] ELSE s
      p == GetOrCreatePool(s1, o)
  IN IF p.res # "ok" THEN [s |-> p.s, res |-> "raise"]
     ELSE LET g == GetConnection(p.s, o) IN
          IF g.res # "ok" THEN [s |-> g.s, res |-> "raise"]
          ELSE IF o \in {"exec_operational", "exec_error"}
               THEN [s |-> ReturnConnection(Rollback(g.s, g.s.table)),
                     res |-> "raise"]
               ELSE [s |-> ReturnConnection([g.s EXCEPT !.tbl = TRUE]),
                     res |-> "ok"]

(***************************************************************************)
(* Bulk-index backend.  e holds the instance and the server:               *)
(*   e.client   self.es is set     e.exists  the index exists              *)
(*   e.index    the documents, each under _id = document_id                *)
(* An attempt's input: "ok", "conn_error" (a ConnectionError or            *)
(* TimeoutError, which tenacity retries), "error" (any other exception).   *)
(***************************************************************************)
EsOutcomes == {"ok", "conn_error", "error"}

EsState == [client |-> esClient, exists |-> esIndexExists, index |-> esIndex]

\* _prepare_doc / _serialize_data: model_dump(mode='json') keeps every field
\* as a JSON value; the temporal_metadata string is stored as it is
PrepareDoc(rec) ==
  [document_id |-> rec.document_id,
   cleaned_text |-> rec.cleaned_text,
   temporal_metadata |-> rec.temporal_metadata]

\* initialize(): nothing when the client is set; else connect, ping and
\* create the index if absent; on any failure self.es is reset and it raises
EsInitializeCall(e, o) ==
  IF e.client THEN [s |-> e, res |-> "ok"]
  ELSE IF o # "ok" THEN [s |-> [e EXCEPT !.client = FALSE], res |-> "raise"]
  ELSE [s |-> [e EXCEPT !.client = TRUE, !.exists = TRUE], res |-> "ok"]

\* one attempt of save(data): skipped (a normal return) without a client;
\* else es.index(index, id=document_id, document=doc) replaces the document
EsSaveAttempt(e, rec, o) ==
  IF ~e.client THEN [s |-> e, res |-> "skip"]
  ELSE IF o = "conn_error" THEN [s |-> e, res |-> "retry"]
  ELSE IF o = "error" THEN [s |-> e, res |-> "raise"]
  ELSE [s |-> [e EXCEPT !.index = Upsert(e.index, PrepareDoc(rec)),
                        !.exists = TRUE],
        res |-> "ok"]

RECURSIVE EsSaveCall(_, _, _, _)
EsSaveCall(e, rec, outs, k) ==
  LET a == EsSaveAttempt(e, rec, outs[k]) IN
  IF a.res = "retry" /\ k < MAX_RETRY_ATTEMPTS
  THEN EsSaveCall(a.s, rec, outs, k + 1)
  ELSE [s |-> a.s, res |-> IF a.res = "retry" THEN "raise" ELSE a.res]

(***************************************************************************)
(* save_batch(data_list).  What a bulk request meets: "ok"; "conn_error"   *)
(* (ConnectionError or TimeoutError, which tenacity retries); "error" (any *)
(* other exception of the transport); "item_errors" (the server rejects a  *)
(* document of the request: helpers.bulk is called without                 *)
(* raise_on_error=False, so it raises BulkIndexError once the request is   *)
(* done, the other documents of the request being indexed).                *)
(***************************************************************************)
BulkOutcomes == {"ok", "conn_error", "error", "item_errors"}

\* the lists handed to save_batch: n records with n distinct document ids
BulkList(n) ==
  [i \in 1..n |-> [document_id |-> ToString(i), cleaned_text |-> "A",
                   temporal_metadata |-> "2024-01-01", meta |-> "json"]]

BulkSizes ==
  {0, 1, ES_BATCH_SIZE, ES_BATCH_SIZE + 1, 2 * ES_BATCH_SIZE, MaxBulk}

\* the failure of one call on n records: request number env.at of each of
\* the first env.times attempts meets env.kind (at = 0: every request
\* succeeds; a request that the list is too short for is not numbered)
BulkEnvs(n) ==
  {env \in [at : 0..MaxChunks, kind : BulkOutcomes \ {"ok"},
            times : {1, MAX_RETRY_ATTEMPTS}] :
     /\ (env.at - 1) * ES_BATCH_SIZE < n
     /\ env.at = 0 => env.kind = "conn_error"
     /\ (env.at = 0 \/ env.kind # "conn_error") => env.times = 1}

\* (mutant) the slice has no upper end
ChunkUncut(data_list, i) == SubSeq(data_list, i + 1, Len(data_list))

\* batch = data_list[i:i+ES_BATCH_SIZE]
Chunk(data_list, i) ==
  SubSeq(data_list, i + 1,
         IF i + ES_BATCH_SIZE < Len(data_list) THEN i + ES_BATCH_SIZE
         ELSE Len(data_list))

\* the server applies the actions of one bulk request: each document
\* replaces the one stored under its _id
BulkIndex(e, batch) ==
  [e EXCEPT
     !.index = UNION {{r \in e.index : r.document_id \notin ids}
                        \cup {PrepareDoc(batch[j]) : j \in 1..Len(batch)} :
                      ids \in {{batch[j].document_id : j \in 1..Len(batch)}}},
     !.exists = TRUE]

\* the for loop over range(0, len(data_list), ES_BATCH_SIZE): one bulk
\* request per chunk; an exception of the request is logged and re-raised
RECURSIVE EsBulkLoop(_, _, _, _, _)
EsBulkLoop(acc, data_list, i, at, o) ==
  IF i >= Len(data_list) THEN [acc EXCEPT !.res = "ok"]
  ELSE LET batch == Chunk(data_list, i)
           q == Len(acc.sent) - acc.before + 1
           sent == Append(acc.sent,
                          [j \in 1..Len(batch) |-> batch[j].document_id])
       IN IF q = at /\ o = "conn_error"
          THEN [acc EXCEPT !.sent = sent, !.res = "retry", !.met = o]
          ELSE IF q = at /\ o = "error"
          THEN [acc EXCEPT !.sent = sent, !.res = "raise", !.met = o]
          ELSE IF q = at /\ o = "item_errors"
          THEN [acc EXCEPT
                  !.s = BulkIndex(acc.s, SubSeq(batch, 1, Len(batch) - 1)),
                  !.sent = sent, !.res = "raise", !.met = o]
          ELSE EsBulkLoop([acc EXCEPT !.s = BulkIndex(acc.s, batch),
                                      !.sent = sent,
                                      !.success = @ + Len(batch)],
                          data_list, i + ES_BATCH_SIZE, at, o)

\* save_batch under @retry: skipped without a client, nothing to do for an
\* empty list; an attempt that met a ConnectionError or TimeoutError is
\* started again from the first chunk, at most MAX_RETRY_ATTEMPTS in all.
\* acc.sent lists the requests of the whole call, acc.success is the
\* total_success of the last attempt.
RECURSIVE EsSaveBatchRetry(_, _, _, _)
EsSaveBatchRetry(acc, data_list, env, k) ==
  LET a == EsBulkLoop([acc EXCEPT !.success = 0, !.before = Len(acc.sent)],
                      data_list, 0, env.at,
                      IF k <= env.times THEN env.kind ELSE "ok")
  IN IF a.res = "retry" /\ k < MAX_RETRY_ATTEMPTS
     THEN EsSaveBatchRetry(a, data_list, env, k + 1)
     ELSE [a EXCEPT !.res = IF a.res = "retry" THEN "raise" ELSE a.res,
                    !.attempts = k]

EsSaveBatchCall(e, data_list, env) ==
  LET acc == [s |-> e, res |-> "ok", sent |-> <<>>, success |-> 0,
              met |-> "none", before |-> 0, attempts |-> 0]
  IN IF ~e.client THEN [acc EXCEPT !.res = "skip"]
     ELSE IF Len(data_list) = 0 THEN acc
     ELSE EsSaveBatchRetry(acc, data_list, env, 1)

\* close(): the client is dropped
EsCloseCall(e) == [e EXCEPT !.client = FALSE]

\* PostgreSQLStorageBackend.close(): self._connection, which no method
\* assigns, is None, so nothing is returned to the pool and nothing changes
PgCloseCall(s) == s

(***************************************************************************)
(* Append-log backend.  j holds the instance and the directory:            *)
(*   j.dir      the output directory exists and is writable                *)
(*   j.handle   the day whose file the handle is open on (0: no handle)    *)
(*   j.buf      lines written to the handle, still in its buffer           *)
(*   j.files    the lines of each daily file                               *)
(*   j.synced   how many lines of each file an fsync has put on the disk   *)
(* An attempt's input: "ok", or the step that raises OSError: "open_fail", *)
(* "flush_fail" (the lines stay buffered), "sync_fail" (the lines are in   *)
(* the file, os.fsync raises), "open_denied" (open raises PermissionError), *)
(* "disk_full" (flush raises OSError with ENOSPC, the lines stay buffered). *)
(***************************************************************************)
JsonlOutcomes ==
  {"ok", "open_fail", "flush_fail", "sync_fail", "open_denied", "disk_full"}

\* the OSErrors that trying again cannot cure: PermissionError raised by
\* open(), ENOSPC raised by flush()
NonTransient == {"open_denied", "disk_full"}

Days == 1..MaxDay

JsonlState ==
  [dir |-> jsonlDir, handle |-> jsonlHandle, buf |-> jsonlBuf,
   files |-> jsonlFiles, synced |-> jsonlSynced]

\* handle.flush(): the buffered lines reach the file
Flush(j) ==
  IF j.handle = 0 THEN j
  ELSE [j EXCEPT !.files[j.handle] = j.files[j.handle] \o j.buf, !.buf = <<>>]

\* (mutant) the lines are left to the operating system's cache
NoSync(j) == j

\* os.fsync(handle.fileno()): what the file holds is on the disk
Sync(j) ==
  IF j.handle = 0 THEN j
  ELSE [j EXCEPT !.synced[j.handle] = Len(j.files[j.handle])]

\* (mutant) a close that writes the buffer out and resets nothing
CloseWithoutReset(j) ==
  IF j.handle = 0 THEN j
  ELSE [j EXCEPT !.files[j.handle] = j.files[j.handle] \o j.buf]

\* close(): flush, sync and close the handle if there is one; the handle,
\* the path and the date are reset in the finally clause
JsonlCloseCall(j) == [Sync(Flush(j)) EXCEPT !.handle = 0]

\* initialize(): mkdir(parents=True, exist_ok=True) and the writability test
JsonlInitializeCall(j, o) ==
  IF o = "ok" THEN [s |-> [j EXCEPT !.dir = TRUE], res |-> "ok"]
  ELSE [s |-> j, res |-> "raise"]

\* (mutant) the file opened first is kept whatever the day
OpenFileOnce(j, day, o) ==
  IF j.handle # 0 THEN [s |-> j, res |-> "ok"]
  ELSE IF ~j.dir \/ o \in {"open_fail", "open_denied"}
  THEN [s |-> j, res |-> "retry"]
  ELSE [s |-> [j EXCEPT !.handle = day], res |-> "ok"]

\* _open_file(): keep the handle when it is open on today's file; else close
\* it and open today's file for appending
OpenFile(j, day, o) ==
  IF j.handle # 0 /\ j.handle = day THEN [s |-> j, res |-> "ok"]
  ELSE LET c == JsonlCloseCall(j) IN
       IF ~c.dir \/ o \in {"open_fail", "open_denied"}
       THEN [s |-> c, res |-> "retry"]
       ELSE [s |-> [c EXCEPT !.handle = day], res |-> "ok"]

\* one attempt of save (one record) or save_batch (a non-empty list): open,
\* write one line per record, one flush and one fsync at the end
JsonlWriteAttempt(j, recs, day, o) ==
  LET f == OpenFile(j, day, o) IN
  IF f.res # "ok" THEN f
  ELSE LET w == [f.s EXCEPT !.buf = f.s.buf \o
                     [i \in 1..Len(recs) |-> PrepareDoc(recs[i])]]
       IN IF o \in {"flush_fail", "disk_full"} THEN [s |-> w, res |-> "retry"]
          ELSE IF o = "sync_fail" THEN [s |-> Flush(w), res |-> "retry"]
          ELSE [s |-> Sync(Flush(w)), res |-> "ok"]

\* (mutant) the list is not looked at
AlwaysSomething(data_list) == FALSE

\* if not data_list: return
NothingToSave(data_list) == Len(data_list) = 0

\* @retry(stop_after_attempt(3), retry_if_exception_type((IOError, OSError)));
\* n counts the attempts made
RECURSIVE JsonlWriteCall(_, _, _, _, _)
JsonlWriteCall(j, recs, day, outs, k) ==
  IF NothingToSave(recs) THEN [s |-> j, res |-> "ok", n |-> 0]
  ELSE LET a == JsonlWriteAttempt(j, recs, day, outs[k]) IN
       IF a.res = "retry" /\ k < MAX_RETRY_ATTEMPTS
       THEN JsonlWriteCall(a.s, recs, day, outs, k + 1)
       ELSE [s |-> a.s, res |-> IF a.res = "ok" THEN "ok" ELSE "raise", n |-> k]

(***************************************************************************)
(* What one call's attempts meet: the first env.fails attempts fail with   *)
(* the retryable error env.kind, the next one meets env.final.  An error  *)
(* that trying again cannot cure is met by every attempt.                  *)
(***************************************************************************)
PgEnvs ==
  {env \in [fails : 0..MAX_RETRY_ATTEMPTS,
            kind : {"conn_error", "exec_operational"},
            final : {"ok", "exec_error"}] :
     /\ env.fails = 0 => env.kind = "conn_error"
     /\ env.fails = MAX_RETRY_ATTEMPTS => env.final = "ok"}

JsonlEnvs ==
  {env \in [fails : 0..MAX_RETRY_ATTEMPTS,
            kind : JsonlOutcomes \ {"ok"},
            final : {"ok"}] :
     /\ env.fails = 0 => env.kind = "open_fail"
     /\ env.kind \in NonTransient => env.fails = MAX_RETRY_ATTEMPTS}

EsEnvs ==
  {env \in [fails : 0..MAX_RETRY_ATTEMPTS, kind : {"conn_error"},
            final : {"ok", "error"}] :
     env.fails = MAX_RETRY_ATTEMPTS => env.final = "ok"}

\* the error the failing attempts of a call meet ("none": no attempt fails)
Met(env) == IF env.fails = 0 THEN "none" ELSE env.kind

Outs(env) ==
  [k \in 1..MAX_RETRY_ATTEMPTS |-> IF k <= env.fails THEN env.kind ELSE env.final]

(***************************************************************************)
(* StorageBackendFactory.  st holds the whole storage state:                *)
(*   st.pg, st.es, st.jsonl   the three backends                           *)
(*   st.cache                 the names in _initialized_backends            *)
(* h gives, for each backend type, what its construction and initialize()  *)
(* meet during one call; f gives what its save() meets.                    *)
(***************************************************************************)
BackendNames == {"jsonl", "postgresql", "elasticsearch"}

\* the strings a configuration or a request may hold besides: a supported
\* name in another letter case, and a name of no supported type
OtherNames == {"JSONL", "mongodb"}

\* backend_name.lower()
Lower(name) == IF name = "JSONL" THEN "jsonl" ELSE name

\* the supported types among the cache keys of a list of names
Keys(use) == {Lower(use[i]) : i \in 1..Len(use)} \cap BackendNames

Range(seq) == {seq[i] : i \in 1..Len(seq)}

StorageState ==
  [pg |-> PgState, es |-> EsState, jsonl |-> JsonlState, cache |-> registry,
   inst |-> instOf]

\* the configurations followed: the default one, two with several backends,
\* one without the append log and one with nothing enabled
EnabledChoices ==
  {<<"jsonl">>, <<"jsonl", "postgresql">>,
   <<"postgresql", "elasticsearch", "jsonl">>, <<"postgresql">>, <<>>}

\* the requested lists followed: none, and lists of distinct names
Requests ==
  {r \in UNION {[1..n -> BackendNames] : n \in 0..MaxRequested} :
     \A i, k \in 1..Len(r) : r[i] = r[k] => i = k}

InitEnvs ==
  [jsonl : {"ok", "fail"},
   postgresql : {"ok", "conn_error", "exec_error"},
   elasticsearch : {"ok", "conn_error"}]

SaveFates == [BackendNames -> {"ok", "fail"}]

\* the inputs that differ on the named backends only
EnvsFor(names) ==
  {h \in InitEnvs : \A n \in BackendNames \ names : h[n] = "ok"}

FatesFor(names) ==
  {f \in SaveFates : \A n \in BackendNames \ names : f[n] = "ok"}

\* what the attempts of one save meet: all succeed, or the call raises (three
\* OSErrors on the log, a rejected statement, a rejected index request)
FateOuts(name, fate) ==
  IF fate = "ok" THEN [k \in 1..MAX_RETRY_ATTEMPTS |-> "ok"]
  ELSE IF name = "jsonl" THEN [k \in 1..MAX_RETRY_ATTEMPTS |-> "open_fail"]
  ELSE IF name = "postgresql" THEN [k \in 1..MAX_RETRY_ATTEMPTS |-> "exec_error"]
  ELSE [k \in 1..MAX_RETRY_ATTEMPTS |-> "error"]

\* (mutant) the requested names are taken as they are
Unfiltered(requested, en) == IF Len(requested) > 0 THEN requested ELSE en

\* the requested names that are enabled, in the order of the request; all
\* enabled names when nothing is requested
Effective(requested, en) ==
  IF Len(requested) > 0
  THEN SelectSeq(requested, LAMBDA n : n \in Range(en))
  ELSE en

\* (mutant) an empty list stays empty
NoFallBack(use) == use

\* if not backends_to_use: backends_to_use = ["jsonl"]
FallBack(use) == IF Len(use) = 0 THEN <<"jsonl">> ELSE use

\* requested_backends filtered by enabled_backends, all enabled ones when
\* nothing is requested, ["jsonl"] when nothing is left
BackendsToUse(requested, en) == FallBack(Effective(requested, en))

\* (mutant) a cached name is constructed and initialized again
NeverCached(cache, name) == FALSE

\* backend_name_lower in cls._initialized_backends
Cached(cache, name) == name \in cache

\* a newly constructed object is not the one the cache holds for the name
NewTag(tag) == IF tag = 1 THEN 2 ELSE 1

\* (mutant) the name is cached whatever became of its initialization
CacheAlways(cache, name, res) == cache \cup {name}

\* cls._initialized_backends[backend_name_lower] = backend, the statement
\* after backend.initialize() inside the try
CacheInitialized(cache, name, res) ==
  IF res = "ok" THEN cache \cup {name} ELSE cache

\* a new instance of the type is constructed and initialize() is called on
\* it; a name of no supported type raises ValueError inside the same try
ConstructAndInitialize(st, name, h) ==
  IF name \notin BackendNames THEN [s |-> st, res |-> "raise"]
  ELSE IF name = "jsonl"
  THEN LET r == JsonlInitializeCall(
                  [st.jsonl EXCEPT !.handle = 0, !.buf = <<>>], h.jsonl)
       IN [s |-> [st EXCEPT !.jsonl = r.s], res |-> r.res]
  ELSE IF name = "postgresql"
  THEN LET r == PgInitializeCall(
                  st.pg, IF h.postgresql = "conn_error" THEN "fail" ELSE "ok",
                  h.postgresql)
       IN [s |-> [st EXCEPT !.pg = r.s], res |-> r.res]
  ELSE LET r == EsInitializeCall([st.es EXCEPT !.client = FALSE], h.elasticsearch)
       IN [s |-> [st EXCEPT !.es = r.s], res |-> r.res]

\* (mutant) a backend whose initialization failed is handed out all the same
KeepFailed(active, name) == Append(active, name)

\* the except clauses of the loop: the failure is logged, the name is skipped
SkipFailed(active, name) == active

\* the loop of get_backends over backends_to_use[i..]; acc holds the state,
\* the active list (cache keys, and the tags of the instances in insts), the names
\* whose initialization failed and the names an instance was constructed for
RECURSIVE GetBackendsLoop(_, _, _, _)
GetBackendsLoop(acc, use, h, i) ==
  IF i > Len(use) THEN acc
  ELSE LET name == Lower(use[i]) IN
       IF Cached(acc.s.cache, name)
       THEN GetBackendsLoop(
              [acc EXCEPT !.active = Append(acc.active, name),
                          !.insts = Append(acc.insts, acc.s.inst[name])],
              use, h, i + 1)
       ELSE LET c == ConstructAndInitialize(acc.s, name, h)
                cache == CacheInitialized(c.s.cache, name, c.res)
            IN
            IF c.res = "ok"
            THEN GetBackendsLoop(
                   [s |-> [c.s EXCEPT !.cache = cache,
                                      !.inst[name] = NewTag(acc.s.inst[name])],
                    active |-> Append(acc.active, name),
                    insts |-> Append(acc.insts, NewTag(acc.s.inst[name])),
                    failed |-> acc.failed,
                    tried |-> acc.tried \cup {name}],
                   use, h, i + 1)
            ELSE GetBackendsLoop(
                   [s |-> [c.s EXCEPT !.cache = cache],
                    active |-> SkipFailed(acc.active, name),
                    insts |-> acc.insts,
                    failed |-> acc.failed \cup {name},
                    tried |-> acc.tried \cup {name}],
                   use, h, i + 1)

GetBackendsCall(st, requested, en, h) ==
  GetBackendsLoop([s |-> st, active |-> <<>>, insts |-> <<>>, failed |-> {},
                   tried |-> {}],
                  BackendsToUse(requested, en), h, 1)

\* backend.save(rec) on the cached instance of the type
BackendSave(st, name, rec, day, f) ==
  IF name = "jsonl"
  THEN LET r == JsonlWriteCall(st.jsonl, <<rec>>, day, FateOuts(name, f[name]), 1)
       IN [s |-> [st EXCEPT !.jsonl = r.s], res |-> r.res]
  ELSE IF name = "postgresql"
  THEN LET r == PgSaveCall(st.pg, rec, FateOuts(name, f[name]), 1)
       IN [s |-> [st EXCEPT !.pg = r.s], res |-> r.res]
  ELSE LET r == EsSaveCall(st.es, rec, FateOuts(name, f[name]), 1)
       IN [s |-> [st EXCEPT !.es = r.s], res |-> r.res]

\* for backend in backends: backend.save(rec), with nothing caught inside the
\* loop: the first save that raises ends it
RECURSIVE SaveLoop(_, _, _, _, _, _)
SaveLoop(acc, active, rec, day, f, i) ==
  IF i > Len(active) THEN acc
  ELSE LET r == BackendSave(acc.s, active[i], rec, day, f)
           called == acc.called \cup {active[i]}
       IN IF r.res = "raise"
          THEN [s |-> r.s, called |-> called, res |-> "raise"]
          ELSE SaveLoop([s |-> r.s, called |-> called, res |-> "ok"],
                        active, rec, day, f, i + 1)

\* get_backends followed by the save loop
Persist(st, requested, en, rec, day, h, f) ==
  LET g == GetBackendsCall(st, requested, en, h)
      l == SaveLoop([s |-> g.s, called |-> {}, res |-> "ok"],
                    g.active, rec, day, f, 1)
  IN [s |-> l.s, res |-> l.res, called |-> l.called,
      effective |-> BackendsToUse(requested, en),
      returned |-> g.active, failed |-> g.failed, insts |-> g.insts,
      tried |-> g.tried]

\* close_all_backends: every cached instance is closed and dropped, then the
\* class-level pool is closed
\* backend.close() on the cached instance of the type, when it returns
BackendClose(st, name) ==
  IF name = "jsonl" THEN [st EXCEPT !.jsonl = JsonlCloseCall(st.jsonl)]
  ELSE IF name = "postgresql" THEN [st EXCEPT !.pg = PgCloseCall(st.pg)]
  ELSE [st EXCEPT !.es = EsCloseCall(st.es)]

\* the cached names in the order the loop of close_all_backends takes them
CacheOrder(cache) ==
  SelectSeq(<<"jsonl", "postgresql", "elasticsearch">>, LAMBDA n : n \in cache)

\* (mutant) an exception of close() leaves the loop
CloseStopsOnRaise(fate) == fate = "ok"

\* except Exception: the error is logged and the loop goes on
CloseGoesOn(fate) == TRUE

\* for name, backend in list(items()): try close() / except / finally del;
\* c[name] = "fail": close() of that instance raises and changes nothing
RECURSIVE CloseLoop(_, _, _, _)
CloseLoop(acc, names, c, i) ==
  IF i > Len(names) THEN acc
  ELSE LET name == names[i]
           s1 == IF c[name] = "ok" THEN BackendClose(acc.s, name) ELSE acc.s
           a1 == [s |-> [s1 EXCEPT !.cache = s1.cache \ {name},
                                   !.inst[name] = 0],
                  res |-> "ok",
                  closed |-> acc.closed \cup {name},
                  raised |-> IF c[name] = "ok" THEN acc.raised
                             ELSE acc.raised \cup {name}]
       IN IF CloseGoesOn(c[name]) THEN CloseLoop(a1, names, c, i + 1)
          ELSE [a1 EXCEPT !.res = "raise"]

\* close_all_backends: every cached instance is closed and dropped, then the
\* class-level pool is closed (closeall() may raise: q) and set to None
CloseAllBackendsCall(st, c, q) ==
  LET l == CloseLoop([s |-> st, res |-> "ok", closed |-> {}, raised |-> {}],
                     CacheOrder(st.cache), c, 1)
  IN IF l.res = "raise" THEN l
     ELSE IF l.s.pg.pool
     THEN [l EXCEPT !.s.pg.pool = FALSE, !.s.pg.out = 0]
     ELSE l

(***************************************************************************)
(* The task queue.  A message carries the job and request.retries.         *)
(***************************************************************************)
Workers == {"w1", "w2"}

\* the pool runs worker_concurrency processes: the first ones of the set
Slot(w) == IF w = "w1" THEN 1 ELSE 2

Running == {w \in Workers : Slot(w) <= concurrency}

Msgs == [job : JobIds, retries : 0..(max_retries + 1)]

NoMsg == [job |-> "none", retries |-> 0]

\* no retry of the job is waiting for its countdown
NoCountdown == [retry |-> 0, delay |-> 0]

Terminal == {"SUCCESS", "FAILURE"}

\* the exception the enrichment raises in the execution of msg
ErrorOf(msg) == <<"error", msg.job, msg.retries>>

\* (mutant) one retry more than max_retries
RetryOnceMore(retries) == retries <= max_retries

\* autoretry_for=(Exception,), max_retries=3: Task.retry re-raises the
\* exception once request.retries has reached max_retries
MayRetry(retries) == retries < max_retries

\* retry_backoff=True is the factor int(True) = 1; default_retry_delay is not
\* used once retry_backoff is set
retry_backoff == 1
retry_backoff_max == 600

RECURSIVE Pow2(_)
Pow2(n) == IF n = 0 THEN 1 ELSE 2 * Pow2(n - 1)

\* the delay before jitter of the retry published by the execution whose
\* request.retries is retries: min(retry_backoff_max, factor * 2 ** retries)
Backoff(retries) ==
  IF retry_backoff * Pow2(retries) < retry_backoff_max
  THEN retry_backoff * Pow2(retries) ELSE retry_backoff_max

\* retry_jitter=True: the delay is random.randrange(countdown + 1)
Jittered(delay) == 0..delay

\* (mutant) an exception of the persistence block reaches the task's handler
PropagateSaveError(res) == IF res = "raise" THEN "failed" ELSE "succeeded"

\* the try/except around the persistence block logs and goes on to return
AfterPersist(res) == "succeeded"

\* (mutant) the error of the first execution is kept
FirstError(msg) == ErrorOf([msg EXCEPT !.retries = 0])

\* the result backend keeps the exception of the execution that gave up
FailureResult(msg) == ErrorOf(msg)

Publish(q, msg) == [q EXCEPT ![msg] = q[msg] + 1]

\* (mutant) the message of a lost worker is dropped
DropOnLoss(q, msg) == q

\* acks_late=True, reject_on_worker_lost=True: the unacknowledged message of
\* a lost worker goes back to the queue
Requeue(q, msg) == Publish(q, msg)

(***************************************************************************)
(* Threads of one process (the CLI's thread pool).  A thread's record:     *)
(*   pc       where it is        op    the call it is in                   *)
(*   i        index in backends_to_use                                     *)
(*   active   the (name, instance) pairs of its active_backends            *)
(*   inst     the instance it has constructed and not cached yet           *)
(*   built    the names it has constructed an instance for (history)       *)
(*   lock     the lock object its with statement entered                   *)
(*   rec      the record it saves        res   how its call ended          *)
(*   day      the date its _open_file() read                               *)
(***************************************************************************)
Threads == {"t1", "t2"}

\* a lock object is created by a constructor that finds _pool_lock None
LockIds == 1..Cardinality(Threads)

IdleThread ==
  [pc |-> "idle", op |-> "none", i |-> 0, active |-> <<>>, inst |-> 0,
   built |-> {}, lock |-> 0, rec |-> NoRecord, day |-> 0, res |-> "none"]

\* the tag of the instances thread t constructs: distinct threads construct
\* distinct objects
ThreadTag(t) == IF t = "t1" THEN 1 ELSE 2

NoRow ==
  [document_id |-> "none", cleaned_text |-> "none", temporal_metadata |-> "none"]

NoCall ==
  [op |-> "none", res |-> "none", ids |-> {}, commits |-> 0, dirty |-> FALSE,
   attempts |-> 0, trail |-> <<>>, peak |-> 0, carried |-> 0,
   met |-> "none", sent |-> <<>>, success |-> 0]

\* down: the names the call had to initialize and whose construction or
\* initialize() met a failure; again: the names the call constructed that the
\* call before it had failed to initialize
NoRegCall ==
  [op |-> "none", res |-> "none", down |-> {}, effective |-> <<>>,
   returned |-> <<>>, failed |-> {}, called |-> {}, requested |-> <<>>,
   insts |-> <<>>, tried |-> {}, again |-> {}]

\* the record a task or a request produces for a document
ResponseFor(id) ==
  CHOOSE r \in GoodRecords : r.document_id = id /\ r.cleaned_text = "A"

BatchIds(batch) == {batch[i].document_id : i \in 1..Len(batch)}

\* the row of the last record of the batch that carries id
LastRowFor(batch, id) ==
  LET i == CHOOSE j \in 1..Len(batch) :
             /\ batch[j].document_id = id
             /\ \A k \in (j + 1)..Len(batch) : batch[k].document_id # id
  IN PrepareSqlData(batch[i])

SetPg(s) ==
  /\ pgDbExists' = s.db
  /\ pgTableExists' = s.tbl
  /\ pgTable' = s.table
  /\ pgPool' = s.pool
  /\ pgOut' = s.out

SetEs(e) ==
  /\ esClient' = e.client
  /\ esIndexExists' = e.exists
  /\ esIndex' = e.index

SetJsonl(j) ==
  /\ jsonlDir' = j.dir
  /\ jsonlHandle' = j.handle
  /\ jsonlBuf' = j.buf
  /\ jsonlFiles' = j.files
  /\ jsonlSynced' = j.synced

\* how many calls of op in a row the call under way ends (history; counted
\* up to MaxCloses)
InARow(op) ==
  IF last.op # op THEN 1
  ELSE IF last.attempts < MaxCloses THEN last.attempts + 1 ELSE MaxCloses

SetStorage(st) ==
  /\ SetPg(st.pg)
  /\ SetEs(st.es)
  /\ SetJsonl(st.jsonl)
  /\ registry' = st.cache
  /\ instOf' = st.inst

regVars == <<enabled, registry, regLast>>
jsonlVars == <<today, jsonlDir, jsonlHandle, jsonlBuf, jsonlFiles,
              jsonlSynced>>
pgVars == <<pgDbExists, pgTableExists, pgTable, pgPool, pgOut>>
esVars == <<esClient, esIndexExists, esIndex>>

\* ProcessingStats.__init__; errors is the length of the list
NoStats ==
  [total_lines |-> 0, empty_lines |-> 0, success_count |-> 0,
   json_decode_errors |-> 0, validation_errors |-> 0,
   processing_errors |-> 0, errors |-> 0]

InitWith(dbs, dirs, configs, procs) ==
  /\ pgDbExists \in dbs
  /\ pgTableExists = FALSE
  /\ pgTable = {}
  /\ pgPool = FALSE
  /\ pgOut = 0
  /\ esClient = FALSE
  /\ esIndexExists = FALSE
  /\ esIndex = {}
  /\ today = 1
  /\ jsonlDir \in dirs
  /\ enabled \in configs
  /\ jsonlHandle = 0
  /\ jsonlBuf = <<>>
  /\ jsonlFiles = [d \in Days |-> <<>>]
  /\ jsonlSynced = [d \in Days |-> 0]
  /\ registry = {}
  /\ instOf = [n \in BackendNames |-> 0]
  /\ thread = [t \in Threads |-> IdleThread]
  /\ poolLock = 0
  /\ lockOwner = [l \in LockIds |-> "none"]
  /\ poolsMade = 0
  /\ stats = NoStats
  /\ lineNo = 0
  /\ queue = [m \in Msgs |-> 0]
  /\ unacked = [w \in Workers |-> NoMsg]
  /\ pc = [w \in Workers |-> "idle"]
  /\ status = [j \in JobIds |-> "NONE"]
  /\ result = [j \in JobIds |-> "none"]
  /\ execs = [j \in JobIds |-> 0]
  /\ crashes = 0
  /\ concurrency \in procs
  /\ persist_to_backends = [j \in JobIds |-> <<>>]
  /\ countdown = [j \in JobIds |-> NoCountdown]
  /\ last = NoCall
  /\ regLast = NoRegCall
  /\ pgLast = [d \in DocIds |-> NoRow]
  /\ esLast = [d \in DocIds |-> NoRow]
  /\ replaced = {}

\* the default configuration, enabled_backends = ["jsonl"], before the output
\* directory is made; the target database may exist or not
InitBase(dbs, dirs, configs) == InitWith(dbs, dirs, configs, {1})

Init == InitBase(BOOLEAN, {FALSE}, {<<"jsonl">>})

\* the same with an output directory that may be there already
InitJsonl == InitBase({TRUE}, BOOLEAN, {<<"jsonl">>})

\* a deployment that enables several backends
InitConfigured == InitBase(BOOLEAN, {FALSE}, EnabledChoices)

\* the workers' deployment: the default configuration or one with two backends
InitTask == InitBase(BOOLEAN, {FALSE}, {<<"jsonl">>, <<"jsonl", "postgresql">>})

(***************************************************************************)
(* The backends called directly.                                           *)
(***************************************************************************)
PgInitialize ==
  \E boot \in {"ok", "fail"}, o \in EnvOutcomes :
    \E r \in {PgInitializeCall(PgState, boot, o)} :
    /\ SetPg(r.s)
    /\ last' = [NoCall EXCEPT !.op = "pg_initialize", !.res = r.res]
    /\ UNCHANGED <<thrVars, instOf, taskVars, regVars, jsonlVars, esVars, pgLast, esLast, replaced>>

PgSave ==
  \E rec \in Records, env \in PgEnvs :
    \E r \in {PgSaveCall(PgState, rec, Outs(env), 1)} :
    LET id == rec.document_id
    IN /\ pgOut < MaxLeaked
       /\ SetPg(r.s)
       /\ last' = [NoCall EXCEPT
                     !.op = "pg_save", !.res = r.res, !.ids = {id},
                     !.commits = r.s.commits, !.attempts = Len(r.s.trail),
                     !.trail = r.s.trail, !.peak = r.s.peak,
                     !.carried = r.s.carried]
       /\ replaced' = IF r.res = "ok" /\ pgLast[id] \notin {NoRow, PrepareSqlData(rec)}
                      THEN replaced \cup {"postgresql"} ELSE replaced
       /\ pgLast' = IF r.res = "ok"
                    THEN [pgLast EXCEPT ![id] = PrepareSqlData(rec)]
                    ELSE pgLast
       /\ UNCHANGED <<thrVars, instOf, taskVars, regVars, jsonlVars, esVars, esLast>>

PgSaveBatch ==
  \E batch \in Batches, env \in PgEnvs :
    \E failAt \in 1..(IF Len(batch) = 0 THEN 1 ELSE Len(batch)) :
      \E r \in {PgSaveBatchCall(PgState, batch, Outs(env), failAt, 1)} :
      LET rows == [i \in 1..Len(batch) |-> PrepareSqlData(batch[i])]
      IN /\ pgOut < MaxLeaked
         /\ SetPg(r.s)
         /\ last' = [NoCall EXCEPT
                       !.op = "pg_save_batch", !.res = r.res,
                       !.ids = BatchIds(batch), !.commits = r.s.commits,
                       !.attempts = Len(r.s.trail), !.trail = r.s.trail,
                       !.peak = r.s.peak, !.carried = r.s.carried,
                       !.dirty = /\ r.res = "raise"
                                 /\ pgTableExists
                                 /\ \A i \in 1..Len(batch) : ~PrepareRaises(batch[i])
                                 /\ ApplyRows(pgTable, rows, failAt - 1) # pgTable]
         /\ pgLast' = IF r.res = "ok"
                      THEN [d \in DocIds |->
                              IF d \in BatchIds(batch) THEN LastRowFor(batch, d)
                              ELSE pgLast[d]]
                      ELSE pgLast
         /\ UNCHANGED <<thrVars, instOf, taskVars, regVars, jsonlVars, esVars, esLast, replaced>>

EsInitialize ==
  \E o \in EsOutcomes :
    \E r \in {EsInitializeCall(EsState, o)} :
    /\ SetEs(r.s)
    /\ last' = [NoCall EXCEPT !.op = "es_initialize", !.res = r.res]
    /\ UNCHANGED <<thrVars, instOf, taskVars, regVars, jsonlVars, pgVars, pgLast, esLast, replaced>>

EsSave ==
  \E rec \in Records, env \in EsEnvs :
    \E r \in {EsSaveCall(EsState, rec, Outs(env), 1)} :
    LET id == rec.document_id
    IN /\ SetEs(r.s)
       /\ last' = [NoCall EXCEPT !.op = "es_save", !.res = r.res, !.ids = {id}]
       /\ replaced' = IF r.res = "ok" /\ esLast[id] \notin {NoRow, PrepareDoc(rec)}
                      THEN replaced \cup {"elasticsearch"} ELSE replaced
       /\ esLast' = IF r.res = "ok"
                    THEN [esLast EXCEPT ![id] = PrepareDoc(rec)]
                    ELSE esLast
       /\ UNCHANGED <<thrVars, instOf, taskVars, regVars, jsonlVars, pgVars, pgLast>>

EsSaveBatch ==
  \E n \in BulkSizes :
    \E env \in BulkEnvs(n) :
    \E r \in {EsSaveBatchCall(EsState, BulkList(n), env)} :
    /\ SetEs(r.s)
    /\ last' = [NoCall EXCEPT !.op = "es_save_batch", !.res = r.res,
                              !.ids = BatchIds(BulkList(n)),
                              !.attempts = r.attempts, !.met = r.met,
                              !.sent = r.sent, !.success = r.success]
    /\ UNCHANGED <<thrVars, instOf, taskVars, regVars, jsonlVars, pgVars, pgLast, esLast, replaced>>

EsClose ==
  /\ SetEs(EsCloseCall(EsState))
  /\ last' = [NoCall EXCEPT !.op = "es_close", !.res = "ok",
                            !.attempts = InARow("es_close")]
  /\ UNCHANGED <<thrVars, instOf, taskVars, regVars, jsonlVars, pgVars, pgLast, esLast, replaced>>

(***************************************************************************)
(* The append-log backend called directly, and the passing of days.        *)
(***************************************************************************)
TotalLines ==
  LET RECURSIVE Sum(_)
      Sum(d) == IF d = 0 THEN 0 ELSE Len(jsonlFiles[d]) + Sum(d - 1)
  IN Sum(MaxDay) + Len(jsonlBuf)

JsonlInitialize ==
  \E o \in {"ok", "fail"} :
    \E r \in {JsonlInitializeCall(JsonlState, o)} :
    /\ SetJsonl(r.s)
    /\ last' = [NoCall EXCEPT !.op = "jsonl_initialize", !.res = r.res]
    /\ UNCHANGED <<thrVars, instOf, taskVars, regVars, today, pgVars, esVars, pgLast, esLast, replaced>>

\* the records handed to the append log: one per document id (the log
\* treats every field but the id alike)
JsonlRecords == {r \in GoodRecords : r.cleaned_text = "A"}

JsonlBatches == {b \in Batches : \A i \in 1..Len(b) : b[i].cleaned_text = "A"}

JsonlSave ==
  \E rec \in JsonlRecords, env \in JsonlEnvs :
    \E r \in {JsonlWriteCall(JsonlState, <<rec>>, today, Outs(env), 1)} :
    /\ TotalLines < MaxLines
    /\ SetJsonl(r.s)
    /\ last' = [NoCall EXCEPT !.op = "jsonl_save", !.res = r.res,
                              !.ids = {rec.document_id}, !.attempts = r.n,
                              !.met = Met(env), !.sent = <<rec.document_id>>]
    /\ UNCHANGED <<thrVars, instOf, taskVars, regVars, today, pgVars, esVars, pgLast, esLast, replaced>>

JsonlSaveBatch ==
  \E batch \in JsonlBatches, env \in JsonlEnvs :
    \E r \in {JsonlWriteCall(JsonlState, batch, today, Outs(env), 1)} :
    /\ TotalLines + Len(batch) <= MaxLines
    /\ SetJsonl(r.s)
    /\ last' = [NoCall EXCEPT !.op = "jsonl_save_batch", !.res = r.res,
                              !.ids = BatchIds(batch), !.attempts = r.n,
                              !.met = Met(env),
                              !.sent = [i \in 1..Len(batch) |->
                                          batch[i].document_id]]
    /\ UNCHANGED <<thrVars, instOf, taskVars, regVars, today, pgVars, esVars, pgLast, esLast, replaced>>

JsonlClose ==
  /\ SetJsonl(JsonlCloseCall(JsonlState))
  /\ last' = [NoCall EXCEPT !.op = "jsonl_close", !.res = "ok",
                            !.attempts = InARow("jsonl_close")]
  /\ UNCHANGED <<thrVars, instOf, taskVars, regVars, today, pgVars, esVars, pgLast, esLast, replaced>>

\* the process dies between two calls and a new one starts: what the handle
\* had buffered is gone, what the files hold stays
JsonlCrash ==
  /\ jsonlHandle' = 0
  /\ jsonlBuf' = <<>>
  /\ last' = [NoCall EXCEPT !.op = "crash"]
  /\ UNCHANGED <<thrVars, instOf, taskVars, regVars, today, jsonlDir, jsonlFiles,
                 jsonlSynced, pgVars, esVars, pgLast, esLast, replaced>>

\* midnight passes
DayRollover ==
  /\ today < MaxDay
  /\ today' = today + 1
  /\ UNCHANGED <<thrVars, instOf, taskVars, regVars, jsonlDir, jsonlHandle, jsonlBuf, jsonlFiles, jsonlSynced, pgVars, esVars,
                 histVars>>

NextJsonl ==
  \/ JsonlInitialize
  \/ JsonlSave
  \/ JsonlSaveBatch
  \/ JsonlClose
  \/ JsonlCrash
  \/ DayRollover

SpecJsonl == InitJsonl /\ [][NextJsonl]_vars

(***************************************************************************)
(* The factory: a caller asks for the backends, then saves a record to     *)
(* each backend of the list it was given; close_all_backends runs at exit. *)
(***************************************************************************)
\* before: the names whose earlier failure the call's record is to tell of
GetBackendsFrom(requests, before) ==
  \E requested \in requests :
    \E h \in EnvsFor(Keys(BackendsToUse(requested, enabled)) \ registry) :
    \E g \in {GetBackendsCall(StorageState, requested, enabled, h)},
       use \in {BackendsToUse(requested, enabled)} :
       /\ SetStorage(g.s)
       /\ regLast' = [NoRegCall EXCEPT
                        !.op = "get_backends", !.res = "ok",
                        !.down = {n \in Keys(use) \ registry : h[n] # "ok"},
                        !.effective = use, !.returned = g.active,
                        !.failed = g.failed, !.requested = requested,
                        !.insts = g.insts, !.tried = g.tried,
                        !.again = g.tried \cap before]
       /\ UNCHANGED <<thrVars, taskVars, today, enabled, last, pgLast, esLast, replaced>>

GetBackends == GetBackendsFrom(Requests, {})

SaveReturned ==
  \E id \in JobIds, f \in FatesFor(Range(regLast.returned)) :
    /\ regLast.op = "get_backends"
    /\ TotalLines < MaxLines
    /\ \E l \in {SaveLoop([s |-> StorageState, called |-> {}, res |-> "ok"],
                           regLast.returned, ResponseFor(id), today, f, 1)} :
       /\ SetStorage(l.s)
       /\ regLast' = [regLast EXCEPT !.op = "save_returned", !.res = l.res,
                                     !.called = l.called]
       /\ UNCHANGED <<thrVars, taskVars, today, enabled, last, pgLast, esLast, replaced>>

CloseAllBackends ==
  \E c \in FatesFor(registry), q \in {"ok", "fail"} :
    /\ q = "fail" => pgPool
    /\ \E r \in {CloseAllBackendsCall(StorageState, c, q)} :
         /\ SetStorage(r.s)
         /\ regLast' = [NoRegCall EXCEPT !.op = "close_all_backends",
                                         !.res = r.res, !.called = r.closed,
                                         !.failed = r.raised]
    /\ UNCHANGED <<thrVars, taskVars, today, enabled, last, pgLast, esLast,
                   replaced>>

NextRegistry ==
  \/ GetBackends
  \/ SaveReturned
  \/ CloseAllBackends

SpecRegistry == InitConfigured /\ [][NextRegistry]_vars

\* configurations and requests that name a backend twice, in another letter
\* case, or name a type the factory does not know
NameChoices ==
  {<<"jsonl", "mongodb">>, <<"mongodb">>, <<"JSONL", "jsonl">>,
   <<"jsonl", "postgresql">>, <<"elasticsearch", "postgresql">>}

NameRequests ==
  {<<>>, <<"jsonl", "jsonl">>, <<"mongodb">>, <<"JSONL">>,
   <<"postgresql", "jsonl">>}

InitNames == InitBase(BOOLEAN, {FALSE}, NameChoices)

GetBackendsNamed ==
  GetBackendsFrom(NameRequests,
                  IF regLast.op = "get_backends" THEN regLast.failed ELSE {})

NextNames ==
  \/ GetBackendsNamed
  \/ SaveReturned
  \/ CloseAllBackends

SpecNames == InitNames /\ [][NextNames]_vars

(***************************************************************************)
(* The synchronous paths: POST /v1/preprocess and the CLI's local mode.    *)
(* Both run the save loop inside the try block of the whole function, so   *)
(* an exception of get_backends or of a save reaches the handler that      *)
(* answers for any processing error.                                       *)
(***************************************************************************)
\* except Exception: raise HTTPException(500) (the endpoint) / stats.
\* processing_errors += 1; return None (the CLI); otherwise the response is
\* returned
SyncOutcome(res) == IF res = "raise" THEN "error" ELSE "success"

\* backends = StorageBackendFactory.get_backends(...); for backend in
\* backends: backend.save(response), inside the try block of function op
SyncSave(op, requests) ==
  \E id \in JobIds, requested \in requests :
    \E h \in EnvsFor(Range(enabled) \ registry),
       f \in FatesFor(Range(enabled)) :
    \E p \in {Persist(StorageState, requested, enabled, ResponseFor(id),
                      today, h, f)} :
      /\ TotalLines < MaxLines
      /\ SetStorage(p.s)
      /\ regLast' = [NoRegCall EXCEPT
                       !.op = "save_loop", !.res = p.res,
                       !.effective = p.effective, !.returned = p.returned,
                       !.failed = p.failed, !.called = p.called,
                       !.requested = requested]
      /\ last' = [NoCall EXCEPT !.op = op, !.res = SyncOutcome(p.res),
                                !.ids = {id}]
      /\ UNCHANGED <<thrVars, today, taskVars, enabled, pgLast, esLast,
                     replaced>>

\* preprocess_single_article, from the built response on: the save loop runs
\* if persist_to_backends is given
PreprocessSingleArticle ==
  \/ SyncSave("preprocess_single", Requests \ {<<>>})
  \/ \E id \in JobIds :
       /\ last' = [NoCall EXCEPT !.op = "preprocess_single",
                                 !.res = "success", !.ids = {id}]
       /\ UNCHANGED <<pgVars, esVars, jsonlVars, registry, instOf, thrVars,
                      regLast, taskVars, enabled, pgLast, esLast, replaced>>

\* _process_single_article, from the built response on: get_backends()
ProcessSingleArticle == SyncSave("process_single_article", {<<>>})

NextSync ==
  \/ PreprocessSingleArticle
  \/ ProcessSingleArticle
  \/ CloseAllBackends

SpecSync == InitTask /\ [][NextSync]_vars

(***************************************************************************)
(* Submission, the workers running preprocess_article_task, worker loss.   *)
(***************************************************************************)
storageVars == <<pgVars, esVars, jsonlVars, registry, instOf, thrVars>>

\* preprocess_article_task.delay(...): one message, request.retries = 0
Submit(j) ==
  /\ status[j] = "NONE"
  /\ queue' = Publish(queue, [job |-> j, retries |-> 0])
  /\ status' = [status EXCEPT ![j] = "PENDING"]
  /\ UNCHANGED <<unacked, pc, result, execs, crashes, storageVars, enabled, concurrency, persist_to_backends, countdown,
                 histVars>>

\* POST /preprocess/batch-file with the form field persist_to_backends:
\* preprocess_article_task.delay(json.dumps(article_data),
\* persist_to_backends), the field being the second positional argument
SubmitFile(j) ==
  \E names \in Requests \ {<<>>} :
    /\ status[j] = "NONE"
    /\ queue' = Publish(queue, [job |-> j, retries |-> 0])
    /\ status' = [status EXCEPT ![j] = "PENDING"]
    /\ persist_to_backends' = [persist_to_backends EXCEPT ![j] = names]
    /\ UNCHANGED <<unacked, pc, result, execs, crashes, storageVars, enabled,
                   concurrency, countdown, histVars>>

\* an idle worker reserves a message, whose countdown (if it is a retry) has
\* run out; with acks_late it stays unacknowledged
Deliver(w) ==
  \E msg \in Msgs :
    /\ w \in Running
    /\ pc[w] = "idle"
    /\ queue[msg] > 0
    /\ queue' = [queue EXCEPT ![msg] = queue[msg] - 1]
    /\ unacked' = [unacked EXCEPT ![w] = msg]
    /\ pc' = [pc EXCEPT ![w] = "enrich"]
    /\ countdown' = [countdown EXCEPT ![msg.job] = NoCountdown]
    /\ UNCHANGED <<status, result, execs, crashes, storageVars, enabled, concurrency, persist_to_backends,
                   histVars>>

\* the body up to the response: parsing, validation, cleaning, enrichment;
\* it returns a response or raises
Enrich(w) ==
  \E outcome \in {"ok", "raise"} :
    /\ pc[w] = "enrich"
    /\ execs' = [execs EXCEPT ![unacked[w].job] = execs[unacked[w].job] + 1]
    /\ pc' = [pc EXCEPT ![w] = IF outcome = "ok" THEN "persist" ELSE "failed"]
    /\ UNCHANGED <<queue, unacked, status, result, crashes, storageVars,
                   enabled, concurrency, persist_to_backends, countdown, histVars>>

\* the persistence block: get_backends() and the save loop inside one try.
\* get_backends is called without an argument: the message's second argument
\* is read as custom_cleaning_config_json and plays no part here
\* the stores as a process sees them that has not used a backend yet
CliProcess(st) ==
  [st EXCEPT !.cache = {}, !.pg.pool = FALSE, !.pg.out = 0,
             !.es.client = FALSE, !.jsonl.handle = 0, !.jsonl.buf = <<>>]

\* the worker's cache, pool, client and handle are not touched by what the
\* other process did
WorkerKeeps(st, after) ==
  [after EXCEPT !.cache = st.cache, !.inst = st.inst, !.pg.pool = st.pg.pool,
                !.pg.out = st.pg.out, !.es.client = st.es.client,
                !.jsonl.handle = st.jsonl.handle, !.jsonl.buf = st.jsonl.buf]

\* backends = StorageBackendFactory.get_backends(); for backend in backends:
\* backend.save(...) for document j, run by worker `who` inside the task's
\* own try/except, or by the CLI ("cli") when task.get() has handed it the
\* result of a task that succeeded (stats.success_count += 1 comes first; an
\* exception of the loop is counted as a retrieval error).  Each runs on the
\* instances of its own process.
SaveStep(who, j) ==
  /\ IF who \in Workers
     THEN pc[who] = "persist" /\ j = unacked[who].job
     ELSE status[j] = "SUCCESS" /\ last.op # "collect_result"
          /\ TotalLines < MaxLines
  /\ \E st \in {IF who \in Workers THEN StorageState
                                   ELSE CliProcess(StorageState)} :
     \E h \in EnvsFor(Range(enabled) \ st.cache),
        f \in FatesFor(Range(enabled)) :
     \E p \in {Persist(st, <<>>, enabled, ResponseFor(j), today, h, f)} :
       /\ SetStorage(IF who \in Workers THEN p.s
                     ELSE WorkerKeeps(StorageState, p.s))
       /\ regLast' = [NoRegCall EXCEPT
                        !.op = IF who \in Workers THEN "task_persist"
                               ELSE "collect_result",
                        !.res = p.res,
                        !.down = {n \in Range(p.effective) \ st.cache :
                                    h[n] # "ok"},
                        !.effective = p.effective, !.returned = p.returned,
                        !.failed = p.failed, !.called = p.called,
                        !.insts = p.insts, !.tried = p.tried]
       /\ pc' = IF who \in Workers
                THEN [pc EXCEPT ![who] = AfterPersist(p.res)] ELSE pc
       /\ last' = IF who \in Workers THEN last
                  ELSE [NoCall EXCEPT !.op = "collect_result",
                                      !.res = SyncOutcome(p.res),
                                      !.ids = {j}]
  /\ UNCHANGED <<queue, unacked, status, result, execs, crashes, today,
                 enabled, concurrency, persist_to_backends, countdown,
                 pgLast, esLast, replaced, thrVars>>

\* the persistence block of preprocess_article_task
PersistResponse(w) == \E j \in JobIds : SaveStep(w, j)

\* return result.model_dump(): the result backend stores SUCCESS
Succeed(w) ==
  /\ pc[w] = "succeeded"
  /\ status' = [status EXCEPT ![unacked[w].job] = "SUCCESS"]
  /\ result' = [result EXCEPT ![unacked[w].job] = "response"]
  /\ pc' = [pc EXCEPT ![w] = "ack"]
  /\ UNCHANGED <<queue, unacked, execs, crashes, storageVars, enabled, concurrency, persist_to_backends, countdown,
                 histVars>>

\* the except clause re-raises; autoretry publishes the retry and the result
\* backend stores RETRY, or the retries are used up and it stores FAILURE
Fail(w) ==
  LET msg == unacked[w] IN
  /\ pc[w] = "failed"
  /\ IF MayRetry(msg.retries)
     THEN /\ queue' = Publish(queue, [msg EXCEPT !.retries = msg.retries + 1])
          /\ status' = [status EXCEPT ![msg.job] = "RETRY"]
          /\ result' = [result EXCEPT ![msg.job] = ErrorOf(msg)]
          /\ \E d \in Jittered(Backoff(msg.retries)) :
               countdown' = [countdown EXCEPT
                               ![msg.job] = [retry |-> msg.retries + 1,
                                             delay |-> d]]
     ELSE /\ queue' = queue
          /\ status' = [status EXCEPT ![msg.job] = "FAILURE"]
          /\ result' = [result EXCEPT ![msg.job] = FailureResult(msg)]
          /\ countdown' = countdown
  /\ pc' = [pc EXCEPT ![w] = "ack"]
  /\ UNCHANGED <<unacked, execs, crashes, storageVars, enabled, concurrency,
                 persist_to_backends, histVars>>

\* the late acknowledgement, once the execution is over
Ack(w) ==
  /\ pc[w] = "ack"
  /\ unacked' = [unacked EXCEPT ![w] = NoMsg]
  /\ pc' = [pc EXCEPT ![w] = "idle"]
  /\ UNCHANGED <<queue, status, result, execs, crashes, storageVars, enabled, concurrency, persist_to_backends, countdown,
                 histVars>>

\* the worker process is lost while it holds a message
WorkerLost(w) ==
  /\ pc[w] # "idle"
  /\ crashes < MaxCrashes
  /\ queue' = Requeue(queue, unacked[w])
  /\ unacked' = [unacked EXCEPT ![w] = NoMsg]
  /\ pc' = [pc EXCEPT ![w] = "idle"]
  /\ crashes' = crashes + 1
  /\ UNCHANGED <<status, result, execs, storageVars, enabled, concurrency, persist_to_backends, countdown, histVars>>

\* GET /v1/preprocess/status/{task_id}: what the caller is shown for the
\* state AsyncResult reports (PENDING for an id the result backend ignores)
GetBatchJobStatus(j) ==
  IF status[j] \in {"NONE", "PENDING"} THEN [status |-> "PENDING", error |-> "none"]
  ELSE IF status[j] = "SUCCESS" THEN [status |-> "SUCCESS", error |-> "none"]
  ELSE IF status[j] = "FAILURE" THEN [status |-> "FAILURE", error |-> result[j]]
  ELSE [status |-> status[j], error |-> "none"]

\* the steps of a worker other than the persistence block
QuickStep(w) ==
  \/ Deliver(w)
  \/ Enrich(w)
  \/ Succeed(w)
  \/ Fail(w)
  \/ Ack(w)

WorkerStep(w) == QuickStep(w) \/ PersistResponse(w)

NextTask ==
  \/ \E j \in JobIds : Submit(j)
  \/ \E w \in Workers : WorkerStep(w)
  \/ \E w \in Workers : WorkerLost(w)

SpecTask == InitTask /\ [][NextTask]_vars

\* jobs submitted through the file endpoint with target backends, on the
\* deployment with two backends enabled
NextFileJobs ==
  \/ \E j \in JobIds : SubmitFile(j)
  \/ \E w \in Workers : WorkerStep(w)
  \/ \E w \in Workers : WorkerLost(w)

InitFileJobs == InitBase({TRUE}, {FALSE}, {<<"jsonl", "postgresql">>})

SpecFileJobs == InitFileJobs /\ [][NextFileJobs]_vars

(***************************************************************************)
(* The CLI's Celery mode: preprocess_file submits the tasks and then       *)
(* collects each result.  The CLI is a process of its own: its factory     *)
(* cache, pool, client and file handle start empty, and what it writes     *)
(* goes to the same files, table and index as the worker's writes.         *)
(***************************************************************************)
\* result_dict = task.get(timeout=3600), and what follows it
CollectResult(j) == SaveStep("cli", j)

NextCliCelery ==
  \/ \E j \in JobIds : Submit(j)
  \/ \E w \in Workers : WorkerStep(w)
  \/ \E w \in Workers : WorkerLost(w)
  \/ \E j \in JobIds : CollectResult(j)

SpecCliCelery == InitTask /\ [][NextCliCelery]_vars

\* the same with a pool of two worker processes
InitWorkers == InitWith({TRUE}, {FALSE}, {<<"jsonl">>}, {2})

SpecWorkers == InitWorkers /\ [][NextTask]_vars

\* a worker that can take a step eventually takes one.  The persistence
\* block is enabled whenever a worker is in it (every call it makes returns
\* or raises), so weak fairness of that step is: no worker stays in it forever.
FairSpecTask ==
  /\ InitTask /\ [][NextTask]_vars
  /\ \A w \in Workers : WF_vars(QuickStep(w)) /\ []<>(pc[w] # "persist")

(***************************************************************************)
(* get_backends() run by the threads of one process, statement by          *)
(* statement; every construction and initialization succeeds.              *)
(***************************************************************************)
ThreadUse == BackendsToUse(<<>>, enabled)

ThreadName(t) == ThreadUse[thread[t].i]

factoryVars == <<pgDbExists, pgTableExists, pgTable, pgOut, esIndex, jsonlVars,
                 enabled, taskVars, histVars>>

\* _process_single_article reaches StorageBackendFactory.get_backends()
TCallGetBackends(t) ==
  /\ thread[t].pc = "idle" /\ thread[t].op = "none"
  /\ thread' = [thread EXCEPT ![t] = [IdleThread EXCEPT
                  !.pc = "check", !.op = "get_backends", !.i = 1]]
  /\ UNCHANGED <<factoryVars, pgPool, esClient, esIndexExists, registry, instOf,
                 poolLock, lockOwner, poolsMade, stats, lineNo>>

\* for backend_name in backends_to_use: if backend_name not in the cache ...
\* else the cached instance is appended
TCheck(t) ==
  /\ thread[t].pc = "check"
  /\ thread' = [thread EXCEPT ![t] =
       IF thread[t].i > Len(ThreadUse) THEN [@ EXCEPT !.pc = "returned"]
       ELSE IF ThreadName(t) \in registry
       THEN [@ EXCEPT !.active = Append(@, <<ThreadName(t), instOf[ThreadName(t)]>>),
                      !.i = @ + 1]
       ELSE [@ EXCEPT !.pc = "construct"]]
  /\ UNCHANGED <<factoryVars, pgPool, esClient, esIndexExists, registry, instOf,
                 poolLock, lockOwner, poolsMade, stats, lineNo>>

\* backend = <Type>StorageBackend(config); the relational constructor goes
\* on to make the class-level lock when it finds none
TConstruct(t) ==
  /\ thread[t].pc = "construct"
  /\ thread' = [thread EXCEPT ![t] = [@ EXCEPT
                  !.inst = ThreadTag(t),
                  !.built = @ \cup {ThreadName(t)},
                  !.pc = IF ThreadName(t) = "postgresql" /\ poolLock = 0
                         THEN "mklock" ELSE "initialize"]]
  /\ UNCHANGED <<factoryVars, pgPool, esClient, esIndexExists, registry, instOf,
                 poolLock, lockOwner, poolsMade, stats, lineNo>>

\* PostgreSQLStorageBackend._pool_lock = threading.Lock()
TMakeLock(t) ==
  /\ thread[t].pc = "mklock"
  /\ poolLock' = IF poolLock = 0 THEN 1 ELSE poolLock + 1
  /\ thread' = [thread EXCEPT ![t] = [@ EXCEPT !.pc = "initialize"]]
  /\ UNCHANGED <<factoryVars, pgPool, esClient, esIndexExists, registry, instOf,
                 lockOwner, poolsMade, stats, lineNo>>

\* backend.initialize(): in one step for the append log and the index; the
\* relational one creates the database, then enters _get_or_create_pool
TInitialize(t) ==
  /\ thread[t].pc = "initialize"
  /\ IF ThreadName(t) = "jsonl"
     THEN /\ SetJsonl(JsonlInitializeCall(JsonlState, "ok").s)
          /\ UNCHANGED <<pgDbExists, esClient, esIndexExists>>
     ELSE IF ThreadName(t) = "elasticsearch"
     THEN /\ SetEs(EsInitializeCall([EsState EXCEPT !.client = FALSE], "ok").s)
          /\ UNCHANGED <<pgDbExists, jsonlDir, jsonlHandle, jsonlBuf, jsonlFiles,
                         jsonlSynced>>
     ELSE /\ pgDbExists' = TRUE
          /\ UNCHANGED <<esClient, esIndexExists, jsonlDir, jsonlHandle,
                         jsonlBuf, jsonlFiles, jsonlSynced>>
  /\ thread' = [thread EXCEPT ![t] = [@ EXCEPT
                  !.pc = IF ThreadName(t) = "postgresql" THEN "acquire" ELSE "cache"]]
  /\ UNCHANGED <<pgTableExists, pgTable, pgOut, pgPool, esIndex, today, enabled,
                 taskVars, histVars, registry, instOf, poolLock,
                 lockOwner, poolsMade, stats, lineNo>>

\* with PostgreSQLStorageBackend._pool_lock: the lock object the class
\* attribute holds now is entered when no thread is inside it
TAcquire(t) ==
  /\ thread[t].pc = "acquire"
  /\ lockOwner[poolLock] = "none"
  /\ lockOwner' = [lockOwner EXCEPT ![poolLock] = t]
  /\ thread' = [thread EXCEPT ![t] = [@ EXCEPT !.lock = poolLock, !.pc = "pool"]]
  /\ UNCHANGED <<factoryVars, pgPool, esClient, esIndexExists, registry, instOf,
                 poolLock, poolsMade, stats, lineNo>>

\* if PostgreSQLStorageBackend._connection_pool is None
TPoolCheck(t) ==
  /\ thread[t].pc = "pool"
  /\ thread' = [thread EXCEPT ![t] = [@ EXCEPT
                  !.pc = IF pgPool THEN "release" ELSE "create"]]
  /\ UNCHANGED <<factoryVars, pgPool, esClient, esIndexExists, registry, instOf,
                 poolLock, lockOwner, poolsMade, stats, lineNo>>

\* _connection_pool = ThreadedConnectionPool(minconn=5, maxconn=20, ...)
TPoolCreate(t) ==
  /\ thread[t].pc = "create"
  /\ pgPool' = TRUE
  /\ poolsMade' = poolsMade + 1
  /\ thread' = [thread EXCEPT ![t] = [@ EXCEPT !.pc = "release"]]
  /\ UNCHANGED <<factoryVars, esClient, esIndexExists, registry, instOf,
                 poolLock, lockOwner, stats, lineNo>>

\* the with block is left; the rest of initialize() creates the table on a
\* pooled connection and returns it
TRelease(t) ==
  /\ thread[t].pc = "release"
  /\ lockOwner' = [lockOwner EXCEPT ![thread[t].lock] = "none"]
  /\ SetPg(PgInitializeCall(PgState, "ok", "ok").s)
  /\ thread' = [thread EXCEPT ![t] = [@ EXCEPT !.lock = 0, !.pc = "cache"]]
  /\ UNCHANGED <<esVars, jsonlVars, enabled, taskVars, histVars, registry,
                 instOf, poolLock, poolsMade, stats, lineNo>>

\* cls._initialized_backends[name] = backend; active_backends.append(backend)
TCache(t) ==
  /\ thread[t].pc = "cache"
  /\ registry' = registry \cup {ThreadName(t)}
  /\ instOf' = [instOf EXCEPT ![ThreadName(t)] = thread[t].inst]
  /\ thread' = [thread EXCEPT ![t] = [@ EXCEPT
                  !.active = Append(@, <<ThreadName(t), thread[t].inst>>),
                  !.inst = 0, !.i = @ + 1, !.pc = "check"]]
  /\ UNCHANGED <<factoryVars, pgPool, esClient, esIndexExists, poolLock,
                 lockOwner, poolsMade, stats, lineNo>>

ThreadGetBackends(t) ==
  \/ TCallGetBackends(t)
  \/ TCheck(t)
  \/ TConstruct(t)
  \/ TMakeLock(t)
  \/ TInitialize(t)
  \/ TAcquire(t)
  \/ TPoolCheck(t)
  \/ TPoolCreate(t)
  \/ TRelease(t)
  \/ TCache(t)

NextFactoryThreads == \E t \in Threads : ThreadGetBackends(t)

SpecFactoryThreads == InitConfigured /\ [][NextFactoryThreads]_vars

(***************************************************************************)
(* JSONLStorageBackend.save() run by the threads of one process on the     *)
(* shared instance, statement by statement; the file system never fails.   *)
(***************************************************************************)
jsonlThreadRest == <<pgVars, esVars, jsonlDir, enabled, registry, instOf,
                     poolLock, lockOwner, poolsMade, stats, lineNo, taskVars, histVars, today>>

\* backend.save(response) on the instance that get_backends handed out
TCallSave(t) ==
  /\ thread[t].pc = "idle" /\ thread[t].op = "none"
  /\ jsonlDir
  /\ \E rec \in GoodRecords :
       thread' = [thread EXCEPT ![t] = [IdleThread EXCEPT
                    !.pc = "open_file", !.op = "save", !.rec = rec]]
  /\ UNCHANGED <<jsonlThreadRest, jsonlHandle, jsonlBuf, jsonlFiles,
                 jsonlSynced>>

\* _open_file(): today = date.today(); if self._file_handle is None or the
\* path or the date changed
TOpenFile(t) ==
  /\ thread[t].pc = "open_file"
  /\ thread' = [thread EXCEPT ![t] = [@ EXCEPT
                  !.day = today,
                  !.pc = IF jsonlHandle = 0 \/ jsonlHandle # today
                         THEN "close" ELSE "write"]]
  /\ UNCHANGED <<jsonlThreadRest, jsonlHandle, jsonlBuf, jsonlFiles,
                 jsonlSynced>>

\* self.close() inside _open_file
TCloseHandle(t) ==
  /\ thread[t].pc = "close"
  /\ SetJsonl(JsonlCloseCall(JsonlState))
  /\ thread' = [thread EXCEPT ![t] = [@ EXCEPT !.pc = "open"]]
  /\ UNCHANGED <<pgVars, esVars, enabled, registry, instOf, poolLock,
                 lockOwner, poolsMade, stats, lineNo, taskVars, histVars, today>>

\* self._file_handle = open(path, 'a'); a file object that the assignment
\* drops is flushed and closed
TOpenHandle(t) ==
  /\ thread[t].pc = "open"
  /\ SetJsonl([Flush(JsonlState) EXCEPT !.handle = thread[t].day])
  /\ thread' = [thread EXCEPT ![t] = [@ EXCEPT !.pc = "write"]]
  /\ UNCHANGED <<pgVars, esVars, enabled, registry, instOf, poolLock,
                 lockOwner, poolsMade, stats, lineNo, taskVars, histVars, today>>

\* self._file_handle.write(json_line + '\n'): an AttributeError when the
\* attribute is None, which the retry policy does not retry
TWrite(t) ==
  /\ thread[t].pc = "write"
  /\ IF jsonlHandle = 0
     THEN /\ thread' = [thread EXCEPT ![t] = [@ EXCEPT
                          !.pc = "returned", !.res = "raise"]]
          /\ UNCHANGED jsonlBuf
     ELSE /\ jsonlBuf' = Append(jsonlBuf, PrepareDoc(thread[t].rec))
          /\ thread' = [thread EXCEPT ![t] = [@ EXCEPT !.pc = "flush"]]
  /\ UNCHANGED <<jsonlThreadRest, jsonlHandle, jsonlFiles, jsonlSynced>>

\* self._file_handle.flush(); os.fsync(self._file_handle.fileno())
TFlush(t) ==
  /\ thread[t].pc = "flush"
  /\ IF jsonlHandle = 0
     THEN /\ thread' = [thread EXCEPT ![t] = [@ EXCEPT
                          !.pc = "returned", !.res = "raise"]]
          /\ UNCHANGED <<jsonlBuf, jsonlFiles, jsonlSynced>>
     ELSE /\ jsonlBuf' = Flush(JsonlState).buf
          /\ jsonlFiles' = Flush(JsonlState).files
          /\ jsonlSynced' = Sync(Flush(JsonlState)).synced
          /\ thread' = [thread EXCEPT ![t] = [@ EXCEPT
                          !.pc = "returned", !.res = "ok"]]
  /\ UNCHANGED <<jsonlThreadRest, jsonlHandle>>

ThreadSave(t) ==
  \/ TCallSave(t)
  \/ TOpenFile(t)
  \/ TCloseHandle(t)
  \/ TOpenHandle(t)
  \/ TWrite(t)
  \/ TFlush(t)

NextJsonlThreads ==
  \/ \E t \in Threads : ThreadSave(t)
  \/ DayRollover

InitJsonlThreads == InitBase({TRUE}, {TRUE}, {<<"jsonl">>})

SpecJsonlThreads == InitJsonlThreads /\ [][NextJsonlThreads]_vars

(***************************************************************************)
(* initialize() of the bulk-index backend, statement by statement, run by  *)
(* two callers that each hold an instance of their own for the same index  *)
(* (two worker processes, or two threads that both missed the cache).      *)
(* thread[t].inst is 1 while the instance's self.es is set; res names the  *)
(* exception the call ended with.                                          *)
(***************************************************************************)
esInitRest == <<pgVars, esClient, esIndex, jsonlVars, enabled, registry,
                instOf, poolLock, lockOwner, poolsMade, stats, lineNo, taskVars, histVars>>

\* backend.initialize()
TCallInitialize(t) ==
  /\ thread[t].pc = "idle"
  /\ thread' = [thread EXCEPT ![t].pc = "connect", ![t].op = "initialize",
                              ![t].res = "none"]
  /\ UNCHANGED <<esIndexExists, esInitRest>>

\* if self.es: return / self.es = Elasticsearch(...); if not self.es.ping():
\* raise ConnectionError
TEsConnect(t) ==
  /\ thread[t].pc = "connect"
  /\ \E o \in {"ok", "conn_error"} :
       thread' = [thread EXCEPT
                    ![t] = IF thread[t].inst = 1
                           THEN [@ EXCEPT !.pc = "done", !.res = "ok"]
                           ELSE IF o = "ok"
                           THEN [@ EXCEPT !.pc = "exists", !.inst = 1]
                           ELSE [@ EXCEPT !.pc = "done", !.inst = 0,
                                          !.res = "ConnectionError"]]
  /\ UNCHANGED <<esIndexExists, esInitRest>>

\* if not self.es.indices.exists(index=self.index_name):
TEsExists(t) ==
  /\ thread[t].pc = "exists"
  /\ thread' = [thread EXCEPT
                  ![t] = IF esIndexExists
                         THEN [@ EXCEPT !.pc = "done", !.res = "ok"]
                         ELSE [@ EXCEPT !.pc = "create"]]
  /\ UNCHANGED <<esIndexExists, esInitRest>>

\* self.es.indices.create(index=self.index_name): the server refuses to
\* create an index that exists (resource_already_exists_exception, raised as
\* BadRequestError); except Exception: self.es = None; raise
TEsCreate(t) ==
  /\ thread[t].pc = "create"
  /\ thread' = [thread EXCEPT
                  ![t] = IF esIndexExists
                         THEN [@ EXCEPT !.pc = "done", !.inst = 0,
                                        !.res = "BadRequestError"]
                         ELSE [@ EXCEPT !.pc = "done", !.res = "ok"]]
  /\ esIndexExists' = TRUE
  /\ UNCHANGED esInitRest

\* the call is over; its caller goes on
TInitReturn(t) ==
  /\ thread[t].pc = "done"
  /\ thread[t].op = "initialize"
  /\ thread' = [thread EXCEPT ![t].pc = "idle"]
  /\ UNCHANGED <<esIndexExists, esInitRest>>

\* backend.close(): if self.es: self.es = None
TCloseInstance(t) ==
  /\ thread[t].pc = "idle"
  /\ thread[t].inst = 1
  /\ thread' = [thread EXCEPT ![t].inst = 0, ![t].op = "close",
                              ![t].res = "ok"]
  /\ UNCHANGED <<esIndexExists, esInitRest>>

ThreadInitialize ==
  \E t \in Threads :
    \/ TCallInitialize(t)
    \/ TCloseInstance(t)
    \/ TEsConnect(t)
    \/ TEsExists(t)
    \/ TEsCreate(t)
    \/ TInitReturn(t)

InitEsThreads == InitBase({TRUE}, {TRUE}, {<<"elasticsearch">>})

SpecEsThreads == InitEsThreads /\ [][ThreadInitialize]_vars

(***************************************************************************)
(* preprocess_file in local thread-pool mode.  The main thread walks the   *)
(* lines and hands each parsed article to the executor; the pool's threads *)
(* run _process_single_article, which updates the shared ProcessingStats   *)
(* without a lock.  `stats.counter += 1` is a read of the attribute, an    *)
(* addition and a write of the attribute: thread[t].i holds what the       *)
(* thread has read, thread[t].op the counter its article ends in.          *)
(***************************************************************************)
statsRest == <<pgVars, esVars, jsonlVars, enabled, registry, instOf,
               poolLock, lockOwner, poolsMade, taskVars, histVars>>

\* the counter _process_single_article adds to: success_count after the
\* saves, validation_errors or processing_errors in the except clauses
ArticleCounters == {"success_count", "validation_errors", "processing_errors"}

\* lines = f.readlines(); stats.total_lines = len(lines)
ReadFile ==
  /\ stats.total_lines = 0
  /\ \E n \in 1..MaxFileLines : stats' = [stats EXCEPT !.total_lines = n]
  /\ UNCHANGED <<thread, lineNo, statsRest>>

\* one turn of the main loop on an empty line or on a line that does not
\* parse: the main thread's own counters, and add_error for the latter
SkipLine ==
  /\ lineNo < stats.total_lines
  /\ lineNo' = lineNo + 1
  /\ \/ stats' = [stats EXCEPT !.empty_lines = @ + 1]
     \/ stats' = [stats EXCEPT !.json_decode_errors = @ + 1,
                               !.errors = @ + 1]
  /\ UNCHANGED <<thread, statsRest>>

\* executor.submit(_process_single_article, article_data, ..., stats): a
\* thread of the pool takes the article and runs it up to its counter
SubmitLine(t) ==
  /\ lineNo < stats.total_lines
  /\ thread[t].pc = "idle"
  /\ lineNo' = lineNo + 1
  /\ \E c \in ArticleCounters :
       thread' = [thread EXCEPT ![t].pc = "load", ![t].op = c]
  /\ UNCHANGED <<stats, statsRest>>

\* stats.<counter> += 1, first half: the attribute is read
TLoadCounter(t) ==
  /\ thread[t].pc = "load"
  /\ thread' = [thread EXCEPT ![t].pc = "store",
                              ![t].i = stats[thread[t].op]]
  /\ UNCHANGED <<stats, lineNo, statsRest>>

\* stats.<counter> += 1, second half: the sum is written to the attribute;
\* the success path is over, the except clauses go on to add_error
TStoreCounter(t) ==
  /\ thread[t].pc = "store"
  /\ stats' = [stats EXCEPT ![thread[t].op] = thread[t].i + 1]
  /\ thread' = [thread EXCEPT
                  ![t] = IF thread[t].op = "success_count" THEN IdleThread
                         ELSE [@ EXCEPT !.pc = "add_error"]]
  /\ UNCHANGED <<lineNo, statsRest>>

\* stats.add_error(error): self.errors.append(error), one list operation
TAddError(t) ==
  /\ thread[t].pc = "add_error"
  /\ stats' = [stats EXCEPT !.errors = @ + 1]
  /\ thread' = [thread EXCEPT ![t] = IdleThread]
  /\ UNCHANGED <<lineNo, statsRest>>

NextStats ==
  \/ ReadFile
  \/ SkipLine
  \/ \E t \in Threads : SubmitLine(t)
  \/ \E t \in Threads : TLoadCounter(t)
  \/ \E t \in Threads : TStoreCounter(t)
  \/ \E t \in Threads : TAddError(t)

InitStats == InitBase({TRUE}, {TRUE}, {<<"jsonl">>})

SpecStats == InitStats /\ [][NextStats]_vars

\* close() on the relational backend
PgClose ==
  /\ SetPg(PgCloseCall(PgState))
  /\ last' = [NoCall EXCEPT !.op = "pg_close", !.res = "ok",
                            !.attempts = InARow("pg_close")]
  /\ UNCHANGED <<thrVars, instOf, taskVars, regVars, jsonlVars, esVars, pgLast,
                 esLast, replaced>>

\* one backend, the one that is enabled, called directly and closed at any
\* time, any number of times
NextClose ==
  \/ enabled = <<"jsonl">> /\ JsonlInitialize
  \/ enabled = <<"jsonl">> /\ JsonlSave
  \/ enabled = <<"jsonl">> /\ JsonlClose
  \/ enabled = <<"jsonl">> /\ DayRollover
  \/ enabled = <<"postgresql">> /\ PgInitialize
  \/ enabled = <<"postgresql">> /\ PgSave
  \/ enabled = <<"postgresql">> /\ PgClose
  \/ enabled = <<"elasticsearch">> /\ EsInitialize
  \/ enabled = <<"elasticsearch">> /\ EsSave
  \/ enabled = <<"elasticsearch">> /\ EsClose

InitClose ==
  InitBase(BOOLEAN, {FALSE},
           {<<"jsonl">>, <<"postgresql">>, <<"elasticsearch">>})

SpecClose == InitClose /\ [][NextClose]_vars

\* save_batch on one backend, the one that is enabled
NextBatch ==
  \/ enabled = <<"jsonl">> /\ JsonlInitialize
  \/ enabled = <<"jsonl">> /\ JsonlSaveBatch
  \/ enabled = <<"jsonl">> /\ DayRollover
  \/ enabled = <<"postgresql">> /\ PgInitialize
  \/ enabled = <<"postgresql">> /\ PgSaveBatch
  \/ enabled = <<"elasticsearch">> /\ EsInitialize
  \/ enabled = <<"elasticsearch">> /\ EsSaveBatch
  \/ enabled = <<"elasticsearch">> /\ EsClose

InitBatch ==
  InitBase({TRUE}, {TRUE},
           {<<"jsonl">>, <<"postgresql">>, <<"elasticsearch">>})

SpecBatch == InitBatch /\ [][NextBatch]_vars

\* the relational backend alone
NextPg ==
  \/ PgInitialize
  \/ PgSave
  \/ PgSaveBatch

SpecPg == Init /\ [][NextPg]_vars

\* single saves on the two upserting backends
NextStore ==
  \/ PgInitialize
  \/ PgSave
  \/ EsInitialize
  \/ EsSave
  \/ EsClose

SpecStore == Init /\ [][NextStore]_vars

(***************************************************************************)
(* Claims about the backends called directly.                              *)
(***************************************************************************)
RowsFor(table, id) == {r \in table : r.document_id = id}

\* C7: on the relational and the bulk-index backends, once a record has been
\* saved under a document_id, the store holds exactly one row/document for
\* that id, and it is the row of the last write, whatever was saved under
\* the id before.
C7_UpsertLastWriteWins ==
  \A id \in DocIds :
    /\ pgLast[id] # NoRow => RowsFor(pgTable, id) = {pgLast[id]}
    /\ esLast[id] # NoRow => RowsFor(esIndex, id) = {esLast[id]}

\* C7 witness: on both backends a save has replaced a row that held other
\* field values under the same document_id.
C7_Witness ==
  /\ replaced = {"postgresql", "elasticsearch"}
  /\ \E id \in DocIds : pgLast[id] # NoRow /\ esLast[id] # NoRow

\* C9: a relational save_batch is all-or-nothing.  A call that raises leaves
\* the table as it was and has committed nothing; a call on a non-empty
\* batch that returns has made exactly one commit, and the row of every
\* record of the batch is in the table.
C9_BatchAtomic ==
  [][last'.op = "pg_save_batch" =>
       /\ last'.res = "raise" => pgTable' = pgTable /\ last'.commits = 0
       /\ last'.res = "ok" /\ last'.ids # {} =>
            /\ last'.commits = 1
            /\ \A id \in last'.ids : RowsFor(pgTable', id) = {pgLast'[id]}
       /\ last'.ids = {} => last'.res = "ok" /\ pgTable' = pgTable]_vars

\* C9 witness: a save_batch raised after its transaction had already
\* changed rows (an earlier statement of the batch had been executed).
C9_Witness ==
  last.op = "pg_save_batch" /\ last.res = "raise" /\ last.dirty

\* C10: a relational save, save_batch or initialize leaves the number of
\* checked-out pool connections as it found it, on every path.
C10_ConnectionsReturned ==
  [][last'.op \in {"pg_save", "pg_save_batch", "pg_initialize"} =>
       pgOut' = pgOut]_vars

\* the lines of the whole log (every daily file, then the buffer) for id
RECURSIVE LogUpTo(_, _)
LogUpTo(files, d) == IF d = 0 THEN <<>> ELSE LogUpTo(files, d - 1) \o files[d]

LinesFor(files, buf, id) ==
  SelectSeq(LogUpTo(files, MaxDay) \o buf, LAMBDA l : l.document_id = id)

\* C8: on the append-log backend, a save that succeeds at its first attempt
\* for a document_id that has exactly one line in the log leaves exactly one
\* line for that id (no duplicate line under re-delivery).
C8_SaveIdempotent ==
  [][/\ last'.op = "jsonl_save" /\ last'.res = "ok" /\ last'.attempts = 1
     /\ \E id \in last'.ids : Len(LinesFor(jsonlFiles, jsonlBuf, id)) = 1
     => \A id \in last'.ids : Len(LinesFor(jsonlFiles', jsonlBuf', id)) = 1]_vars

C2_SaveFailureIsolated ==
  regLast.op = "task_persist" => regLast.called = Range(regLast.returned)

\* C3: an execution whose enrichment succeeded goes on to the succeeded
\* state whatever the persistence block met; it stores SUCCESS for the job
\* and publishes no retry.
C3_EnrichedAttemptSucceeds ==
  [][\A w \in Workers :
       /\ pc[w] = "persist" /\ pc'[w] \notin {"persist", "idle"} =>
            pc'[w] = "succeeded" /\ queue' = queue /\ status' = status
       /\ pc[w] = "succeeded" /\ pc'[w] \notin {"succeeded", "idle"} =>
            /\ pc'[w] = "ack"
            /\ status'[unacked[w].job] = "SUCCESS"
            /\ queue' = queue]_vars

\* the persistence block raised and the job is reported SUCCESS after its
\* single execution
C3_Witness ==
  /\ regLast.op = "task_persist" /\ regLast.res = "raise"
  /\ crashes = 0
  /\ \E j \in JobIds : GetBatchJobStatus(j).status = "SUCCESS" /\ execs[j] = 1

\* C4 (as amended): a job is executed at most max_retries + 1 = 4 times (the
\* first execution and three retries), and at most 4 times more for each
\* worker lost while it held a message of the job.
C4_ExecutionsBounded ==
  \A j \in JobIds : execs[j] <= (max_retries + 1) * (1 + crashes)

\* no worker was lost, four executions failed, the job is FAILURE
C4_Witness ==
  \E j \in JobIds :
    execs[j] = max_retries + 1 /\ crashes = 0 /\ status[j] = "FAILURE"

\* C4 as stated: at most 3 executions in total (here on runs that lose no
\* worker, where every execution before the last one failed).
C4_AtMostThreeExecutions ==
  \A j \in JobIds : crashes = 0 => execs[j] <= 3

\* C5: under fair scheduling of the workers every submitted job reaches
\* SUCCESS or FAILURE; a job that is FAILURE shows, at the status poll, the
\* error of the execution that used up the retries (the last one).
C5_EventuallyTerminal ==
  /\ \A j \in JobIds :
       (status[j] \in {"PENDING", "RETRY"}) ~> (status[j] \in Terminal)
  /\ [](\A j \in JobIds :
          status[j] = "FAILURE" =>
            GetBatchJobStatus(j).error =
              ErrorOf([job |-> j, retries |-> max_retries]))

\* the retries are used up and the poll shows the last error
C5_Witness ==
  \E j \in JobIds :
    /\ GetBatchJobStatus(j).status = "FAILURE"
    /\ GetBatchJobStatus(j).error = ErrorOf([job |-> j, retries |-> max_retries])
    /\ execs[j] >= max_retries + 1

\* the messages of job j in the queue or held by a worker
Outstanding(j) ==
  {m \in Msgs : m.job = j /\ (queue[m] > 0 \/ \E w \in Workers : unacked[w] = m)}

\* C6: a worker holds its message unacknowledged through the whole
\* execution; a job that is not terminal always has a message in the queue
\* or held by a worker, also after a worker loss; and under fair scheduling
\* a message in the queue is eventually delivered to a worker.
C6_LateAckNoLoss ==
  /\ [](\A w \in Workers : pc[w] # "idle" => unacked[w] \in Msgs)
  /\ [](\A j \in JobIds :
          status[j] \in {"PENDING", "RETRY"} => Outstanding(j) # {})
  /\ \A m \in Msgs : (queue[m] > 0) ~> (\E w \in Workers : unacked[w] = m)

\* a worker was lost after it had started the job, and the job ended SUCCESS
C6_Witness ==
  /\ crashes > 0
  /\ \E j \in JobIds : status[j] = "SUCCESS" /\ execs[j] >= 2

\* C11: under any interleaving of get_backends calls by the threads of a
\* process, each backend type is constructed (and initialized) at most once
\* and every caller is handed the same instance for a name.
C11_InitializedOnce ==
  /\ \A n \in BackendNames :
       Cardinality({t \in Threads : n \in thread[t].built}) <= 1
  /\ \A t, u \in Threads :
       \A k \in 1..Len(thread[t].active), l \in 1..Len(thread[u].active) :
         thread[t].active[k][1] = thread[u].active[l][1] =>
           thread[t].active[k][2] = thread[u].active[l][2]

\* C12: two threads that save on the shared append-log instance both
\* succeed: neither call raises because the other thread closed or replaced
\* the handle, and the record of each finished call is in the file once, as
\* a whole line.
C12_ConcurrentSaveSafe ==
  \A t \in Threads :
    (thread[t].op = "save" /\ thread[t].pc = "returned") =>
      /\ thread[t].res = "ok"
      /\ \E k \in 1..Len(LogUpTo(jsonlFiles, MaxDay)) :
           LogUpTo(jsonlFiles, MaxDay)[k] = PrepareDoc(thread[t].rec)

InFlight(w) == pc[w] \in {"enrich", "persist", "succeeded", "failed"}

\* C13: at every moment at most one execution attempt is in flight for a
\* document_id: no two workers execute messages for the same document at
\* the same time.
C13_OneAttemptInFlight ==
  \A w, v \in Workers :
    (w # v /\ InFlight(w) /\ InFlight(v)) =>
      ResponseFor(unacked[w].job).document_id # ResponseFor(unacked[v].job).document_id

\* the names of a request that are enabled
Wanted(requested, en) == Range(requested) \cap Range(en)

\* the effective list of the call is empty before the fall-back
NothingToUse(requested, en) ==
  IF Len(requested) > 0 THEN Wanted(requested, en) = {} ELSE Len(en) = 0

\* C14: get_backends with a requested list goes through the requested names
\* that are enabled, in the order of the request, and constructs nothing
\* else; with no requested list it goes through every enabled name (each is
\* returned or has failed) and constructs nothing else; the one exception is
\* the fall-back, where the append log alone is gone through, enabled and
\* requested or not.
C14_OnlyRequestedAndEnabled ==
  regLast.op = "get_backends" =>
    IF NothingToUse(regLast.requested, enabled)
    THEN regLast.tried \subseteq {"jsonl"}
    ELSE IF Len(regLast.requested) > 0
    THEN /\ regLast.effective =
              SelectSeq(regLast.requested, LAMBDA n : n \in Range(enabled))
         /\ regLast.tried \subseteq Wanted(regLast.requested, enabled)
         /\ Range(regLast.returned) \cup regLast.failed =
              Wanted(regLast.requested, enabled)
    ELSE /\ regLast.effective = enabled
         /\ regLast.tried \subseteq Range(enabled)
         /\ Range(regLast.returned) \cup regLast.failed = Range(enabled)

\* a request names an enabled backend and one that is not enabled; the
\* enabled one alone is constructed
C14_Witness ==
  /\ regLast.op = "get_backends"
  /\ Len(regLast.requested) = 2
  /\ Range(regLast.requested) \ Range(enabled) # {}
  /\ regLast.tried # {}
  /\ regLast.tried = Wanted(regLast.requested, enabled)

\* C14 as stated: no name is constructed that is not both requested and
\* enabled (enabled, when nothing is requested)
C14_NeverOutsideEnabled ==
  regLast.op = "get_backends" =>
    regLast.tried \subseteq
      (IF Len(regLast.requested) > 0
       THEN Wanted(regLast.requested, enabled) ELSE Range(enabled))

C16_CachedInstanceReused ==
  [][/\ regLast'.op \in {"get_backends", "task_persist"} =>
          \A n \in registry :
            /\ n \notin regLast'.tried
            /\ \A k \in 1..Len(regLast'.returned) :
                 regLast'.returned[k] = n => regLast'.insts[k] = instOf[n]
     /\ regLast'.op # "close_all_backends" =>
          \A n \in registry : n \in registry' /\ instOf'[n] = instOf[n]]_vars

\* a call was answered from the cache alone
C16_Witness ==
  /\ regLast.op = "get_backends"
  /\ Len(regLast.returned) = 2
  /\ regLast.tried = {}
  /\ \A k \in 1..Len(regLast.returned) :
       regLast.insts[k] = instOf[regLast.returned[k]] /\ regLast.insts[k] # 0

\* C17: close_all_backends calls close() on every cached backend, also on
\* those after one whose close() raised, does not raise, and ends with the
\* cache empty and the class-level connection pool set to None.
C17_CloseAllClosesEverything ==
  [][regLast'.op = "close_all_backends" =>
       /\ regLast'.res = "ok"
       /\ regLast'.called = registry
       /\ registry' = {}
       /\ \A n \in BackendNames : instOf'[n] = 0
       /\ ~pgPool']_vars

\* the close() of one of several cached backends raised, every one of them
\* was closed and the pool that the relational one had made is gone
C17_Witness ==
  /\ regLast.op = "close_all_backends"
  /\ "jsonl" \in regLast.failed
  /\ regLast.called = BackendNames
  /\ registry = {}
  /\ ~pgPool

\* C18: on every backend, a close() that follows a close() of the same
\* instance raises nothing and leaves the backend (the instance and its
\* store) as the first close() left it.
C18_CloseIdempotent ==
  [][/\ (last.op = "jsonl_close" /\ last'.op = "jsonl_close") =>
          /\ last'.res = "ok"
          /\ <<jsonlDir, jsonlHandle, jsonlBuf, jsonlFiles>>' =
               <<jsonlDir, jsonlHandle, jsonlBuf, jsonlFiles>>
     /\ (last.op = "pg_close" /\ last'.op = "pg_close") =>
          last'.res = "ok" /\ pgVars' = pgVars
     /\ (last.op = "es_close" /\ last'.op = "es_close") =>
          last'.res = "ok" /\ esVars' = esVars]_vars

\* the append log was written to and then closed twice in a row
C18_Witness ==
  /\ last.op = "jsonl_close" /\ last.attempts = 2
  /\ jsonlHandle = 0
  /\ TotalLines > 0

\* C19: whatever the number of relational backend instances and the
\* interleaving of the threads that bring them up, at most one connection
\* pool is created, and no more than 20 of its connections are checked out
\* at once.
C19_OnePoolShared ==
  /\ poolsMade <= 1
  /\ pgOut <= PoolMax

\* C20: a relational save or save_batch makes at most 3 attempts; an attempt
\* is followed by another one only when it ended with an Operational- or
\* InterfaceError; the call holds no pool connection when it starts another
\* attempt and never more than one at a time; attempts that failed leave the
\* table as it was.
C20_BoundedRetriesOneConnection ==
  [][last'.op \in {"pg_save", "pg_save_batch"} =>
       /\ last'.attempts <= 3
       /\ \A k \in 1..(Len(last'.trail) - 1) : last'.trail[k] = "retry"
       /\ last'.carried = 0
       /\ last'.peak <= 1
       /\ last'.commits <= 1
       /\ last'.res = "raise" => pgTable' = pgTable]_vars

\* a save went through two connection-level failures and succeeded at the
\* third attempt, one connection at a time
C20_Witness ==
  /\ last.op = "pg_save" /\ last.res = "ok"
  /\ last.trail = <<"retry", "retry", "ok">>
  /\ last.peak = 1 /\ last.carried = 0
  /\ pgOut = 0

\* the lines a successful call has added to today's file: what the file held,
\* then what the handle open on today's file had buffered
CarriedOver ==
  jsonlFiles[today] \o (IF jsonlHandle = today THEN jsonlBuf ELSE <<>>)

\* a step of a save or save_batch that returns success (the day stands still
\* during a call)
JsonlWrote ==
  /\ today' = today
  /\ last'.op \in {"jsonl_save", "jsonl_save_batch"}
  /\ last'.res = "ok"
  /\ last'.ids # {}

\* C21: the append-log file is chosen at write time.  A save or save_batch
\* that succeeds leaves the handle open on the file of the day of the call and
\* adds its lines to that file; no other day's file receives a line of the
\* call (the file of an earlier day only receives what its handle still had
\* buffered when it is closed at the rollover).
C21_FileChosenAtWriteTime ==
  [][JsonlWrote =>
       /\ jsonlHandle' = today
       /\ Len(jsonlFiles'[today]) > Len(CarriedOver)
       /\ SubSeq(jsonlFiles'[today], 1, Len(CarriedOver)) = CarriedOver
       /\ \A i \in (Len(CarriedOver) + 1)..Len(jsonlFiles'[today]) :
            jsonlFiles'[today][i].document_id \in last'.ids
       /\ \A d \in Days \ {today} :
            jsonlFiles'[d] = IF d = jsonlHandle THEN jsonlFiles[d] \o jsonlBuf
                             ELSE jsonlFiles[d]]_vars

\* C21 witness: one record was saved on day 1 and another on day 2; each of
\* the two daily files holds exactly the line written on its day.
C21_Witness ==
  /\ today = 2 /\ last.op = "jsonl_save" /\ last.res = "ok"
  /\ Len(jsonlFiles[1]) = 1 /\ Len(jsonlFiles[2]) = 1
  /\ jsonlFiles[1][1].document_id # jsonlFiles[2][1].document_id
  /\ jsonlFiles[2][1].document_id \in last.ids

\* C22: a save or save_batch that returns success has written, flushed and
\* synced its lines: nothing is left in the buffer, every record of the call
\* is among the synced lines of today's file; the files only grow, the synced
\* part never shrinks, and a crash of the process changes neither.
C22_SuccessIsDurable ==
  [][/\ JsonlWrote =>
          /\ jsonlBuf' = <<>>
          /\ jsonlSynced'[today] = Len(jsonlFiles'[today])
          /\ \A id \in last'.ids :
               \E i \in 1..jsonlSynced'[today] :
                 jsonlFiles'[today][i].document_id = id
     /\ last'.op = "crash" =>
          jsonlFiles' = jsonlFiles /\ jsonlSynced' = jsonlSynced
     /\ \A d \in Days :
          /\ jsonlSynced[d] <= jsonlSynced'[d]
          /\ Len(jsonlFiles[d]) <= Len(jsonlFiles'[d])
          /\ SubSeq(jsonlFiles'[d], 1, Len(jsonlFiles[d])) = jsonlFiles[d]]_vars

\* C22 witness: the process crashed after a save had returned success; the
\* saved line is in the file and covered by a sync.
C22_Witness ==
  /\ last.op = "crash"
  /\ \E d \in Days : jsonlFiles[d] # <<>> /\ jsonlSynced[d] = Len(jsonlFiles[d])

\* C23 (as stated): an append-log save or save_batch whose first attempt meets
\* a non-transient error (permission denied, disk full) makes one attempt and
\* raises.
C23_NonTransientNotRetried ==
  /\ last.op \in {"jsonl_save", "jsonl_save_batch"}
  /\ last.ids # {}
  /\ last.met \in NonTransient
  => last.attempts = 1 /\ last.res = "raise"

\* C24 (as stated): one append-log save adds at most one line for its record
\* to the log, whatever its attempts meet.
C24_NeverDuplicated ==
  [][last'.op = "jsonl_save" =>
       \A id \in last'.ids :
         Len(LinesFor(jsonlFiles', jsonlBuf', id))
           <= Len(LinesFor(jsonlFiles, jsonlBuf, id)) + 1]_vars

\* C25: save_batch with an empty list returns normally on every backend and
\* changes nothing: the append log's handle, buffer and files, the pool and
\* its checked-out connections, the table and the index are as before; the
\* call has taken no connection, made no commit and sent no bulk request.
C25_EmptyBatchNoOp ==
  [][/\ today' = today
     /\ last'.op \in {"jsonl_save_batch", "pg_save_batch", "es_save_batch"}
     /\ last'.ids = {}
     => /\ last'.res \in {"ok", "skip"}
        /\ jsonlVars' = jsonlVars
        /\ pgVars' = pgVars
        /\ esVars' = esVars
        /\ last'.attempts = 0 /\ last'.peak = 0 /\ last'.commits = 0
        /\ last'.sent = <<>>]_vars

\* C25 witness: the append log was handed an empty list while no file was
\* open on today's file; no file has been opened.
C25_Witness ==
  /\ last.op = "jsonl_save_batch" /\ last.ids = {} /\ last.res = "ok"
  /\ jsonlDir /\ jsonlHandle # today

\* the document ids of the requests of a call, one after the other
RECURSIVE Flatten(_)
Flatten(seqs) ==
  IF seqs = <<>> THEN <<>> ELSE Head(seqs) \o Flatten(Tail(seqs))

\* C26: a bulk-index save_batch of N >= 1 records that meets no failure
\* sends ceil(N / ES_BATCH_SIZE) bulk requests; each holds between 1 and
\* ES_BATCH_SIZE documents; the requests put end to end are the input list,
\* so the chunks are consecutive slices and every record is in exactly one;
\* total_success is N and every document is in the index.
C26_ChunksOfFiveHundred ==
  /\ last.op = "es_save_batch" /\ last.res = "ok"
  /\ last.met = "none" /\ last.ids # {}
  => \E n \in BulkSizes :
       /\ n = Cardinality(last.ids)
       /\ (Len(last.sent) - 1) * ES_BATCH_SIZE < n
       /\ n <= Len(last.sent) * ES_BATCH_SIZE
       /\ \A c \in 1..Len(last.sent) :
            Len(last.sent[c]) \in 1..ES_BATCH_SIZE
       /\ Flatten(last.sent) = [i \in 1..n |-> BulkList(n)[i].document_id]
       /\ last.success = n
       /\ last.ids \subseteq {r.document_id : r \in esIndex}

\* C26 witness: the longest list went through in three requests, the last
\* one holding what the two full chunks left.
C26_Witness ==
  /\ last.op = "es_save_batch" /\ last.res = "ok" /\ last.met = "none"
  /\ Cardinality(last.ids) > 2 * ES_BATCH_SIZE
  /\ Len(last.sent) = 3
  /\ Len(last.sent[3]) = Cardinality(last.ids) - 2 * ES_BATCH_SIZE

\* C27 (as stated): a bulk-index save_batch one of whose requests met an
\* error returns normally, and every record of the list has been sent in
\* some request.
C27_ChunkErrorNotFatal ==
  last.op = "es_save_batch" /\ last.met # "none"
  => /\ last.res = "ok"
     /\ last.ids \subseteq UNION {Range(last.sent[c]) : c \in 1..Len(last.sent)}

\* C28 (as stated): when the task executor persists the response of a job
\* that was submitted with target backends, the backends whose save is called
\* are among the targets and among the enabled backends.
C28_OnlyTargetBackends ==
  \A j \in JobIds :
    /\ regLast.op = "task_persist"
    /\ persist_to_backends[j] # <<>>
    => regLast.called \subseteq
         (Range(persist_to_backends[j]) \cap Range(enabled))

\* C29 (as stated): the delay of every retry is at most retry_backoff_max,
\* and from the second retry on it is at least the delay before jitter of
\* the retry before it.
C29_DelayAtLeastPreviousBase ==
  \A j \in JobIds :
    countdown[j].retry >= 1 =>
      /\ countdown[j].delay <= retry_backoff_max
      /\ countdown[j].retry >= 2 =>
           countdown[j].delay >= Backoff(countdown[j].retry - 2)

\* the place of a reported state on the path pending, started, in progress
\* (PROGRESS, or RETRY between two executions), then SUCCESS or FAILURE
Rank(s) ==
  CASE s = "PENDING" -> 1
    [] s = "STARTED" -> 2
    [] s \in {"PROGRESS", "RETRY"} -> 3
    [] s \in Terminal -> 4

\* C30 (as stated): the status shown for a job only moves forward, never
\* changes once it is SUCCESS or FAILURE, and a retry is published with the
\* retries count of the failed execution plus one.
C30_StatusForwardOnly ==
  [][/\ \A j \in JobIds :
          /\ Rank(GetBatchJobStatus(j).status)
               <= Rank(GetBatchJobStatus(j).status')
          /\ GetBatchJobStatus(j).status \in Terminal =>
               GetBatchJobStatus(j).status' = GetBatchJobStatus(j).status
     /\ \A w \in Workers :
          pc[w] = "failed" /\ pc'[w] = "ack" =>
            \A msg \in Msgs :
              queue'[msg] > queue[msg] =>
                msg.job = unacked[w].job /\ msg.retries = unacked[w].retries + 1]_vars

\* C31: a get_backends call that meets a name of no supported backend type
\* raises ValueError to its caller.
C31_UnsupportedNameRaises ==
  (/\ regLast.op = "get_backends"
   /\ \E i \in 1..Len(regLast.effective) :
        Lower(regLast.effective[i]) \notin BackendNames)
  => regLast.res = "raise"

\* C36: the list get_backends returns holds each backend instance at most
\* once, so that the save loop over it writes a record to each backend once.
C36_EachInstanceOnce ==
  regLast.op \in {"get_backends", "save_returned"}
  => \A i, k \in 1..Len(regLast.returned) :
       i # k => \/ regLast.returned[i] # regLast.returned[k]
                \/ regLast.insts[i] # regLast.insts[k]

\* C34: the cache holds only backends whose initialize() succeeded; a name
\* whose construction or initialize() failed is not cached, every name in use
\* that is not cached is constructed and initialized by the call, and it is
\* cached and returned when that attempt succeeds.
C34_CacheHoldsInitializedOnly ==
  [][(regLast'.op = "get_backends" /\ regLast' # regLast)
     => /\ registry' = registry \cup (regLast'.tried \ regLast'.failed)
        /\ regLast'.failed \cap registry' = {}
        /\ Keys(regLast'.effective) \ registry \subseteq regLast'.tried
        /\ regLast'.tried \ regLast'.failed \subseteq Range(regLast'.returned)
        /\ ("jsonl" \in registry' => jsonlDir')
        /\ ("postgresql" \in registry' => pgPool' /\ pgTableExists')
        /\ ("elasticsearch" \in registry' => esClient' /\ esIndexExists')]_vars

\* a call constructed again a backend the call before it had failed to
\* initialize, and returned it
C34_Witness ==
  /\ regLast.op = "get_backends"
  /\ regLast.again \cap Range(regLast.returned) # {}
  /\ regLast.again \subseteq registry

\* C39: a save or save_batch of the bulk-index backend that returns normally
\* has sent its record(s) to the index; without a client (never initialized,
\* or closed) the call reports an error.
C39_NoSuccessWithoutSend ==
  /\ (last.op = "es_save" /\ last.res # "raise")
     => \A id \in last.ids : RowsFor(esIndex, id) # {}
  /\ (last.op = "es_save_batch" /\ last.res # "raise" /\ last.ids # {})
     => last.sent # <<>>

\* C32 (as stated): an append-log save_batch of n >= 1 records that returns
\* appends exactly n lines to the file of the day, the i-th new line carrying
\* the i-th record's document_id, all of them covered by the sync; a single
\* save appends exactly one line.
C32_ExactlyTheLinesInOrder ==
  [][JsonlWrote =>
       /\ Len(jsonlFiles'[today]) = Len(CarriedOver) + Len(last'.sent)
       /\ \A i \in 1..Len(last'.sent) :
            /\ Len(CarriedOver) + i <= Len(jsonlFiles'[today])
            /\ jsonlFiles'[today][Len(CarriedOver) + i].document_id
                 = last'.sent[i]
       /\ jsonlSynced'[today] = Len(jsonlFiles'[today])]_vars

\* C33 (as stated): initialize() is idempotent: a second call on the same
\* instance, or the call of a second instance racing for the same index,
\* raises nothing when the service can be reached, and the index is created
\* at most once.
C33_InitializeIdempotent ==
  \A t \in Threads :
    thread[t].op = "initialize" => thread[t].res \in {"none", "ok", "ConnectionError"}

\* C35 (as stated): on the synchronous paths a backend save failure does not
\* turn an enriched article into an error: the article is returned / written
\* and counted as a success.
C35_SaveFailureKeepsArticle ==
  last.op \in {"preprocess_single", "process_single_article"}
  => last.res = "success"

\* C37 (as stated): in the CLI's Celery mode the save done inside the worker
\* task is not repeated by the CLI when it collects the task's result: no
\* backend the task saved the document to is saved to again.
C37_SavedOncePerRun ==
  [][(regLast'.op = "collect_result" /\ regLast.op = "task_persist")
     => regLast'.called \cap regLast.called = {}]_vars

\* C38 (as stated): when preprocess_file finishes in local thread-pool mode,
\* every input line is accounted for exactly once: total_lines is the sum of
\* the five counters, and the number of recorded errors is the sum of the
\* three error counters.
C38_EveryLineCountedOnce ==
  (/\ stats.total_lines > 0
   /\ lineNo = stats.total_lines
   /\ \A t \in Threads : thread[t].pc = "idle")
  => /\ stats.total_lines
          = stats.empty_lines + stats.success_count + stats.json_decode_errors
            + stats.validation_errors + stats.processing_errors
     /\ stats.errors = stats.json_decode_errors + stats.validation_errors
                       + stats.processing_errors
====
